---- MODULE Spec2Model ----
(***************************************************************************)
(* Model of the tile acquisition pipeline of satellite-tile-manager:       *)
(*   - TileManager.download_region and its helpers                         *)
(*     (src/src/services/tile_manager.py),                                 *)
(*   - RequestDeduplicator, TileCache and HTTPClientManager                *)
(*     (src/src/services/http_client.py),                                  *)
(*   - the tile arithmetic and download_tile_with_cache of TileProvider    *)
(*     (src/src/providers/base.py),                                        *)
(*   - the maintenance operations of TileManager, delete_region            *)
(*     (src/src/api/routes/regions.py) and the comparison routes           *)
(*     (src/src/api/routes/compare.py).                                    *)
(*                                                                         *)
(* Scheduling is asyncio's: one event loop, a coroutine runs without       *)
(* interruption from one suspension point to the next.  Every action below *)
(* is the code between two suspension points.  Acquiring an uncontended    *)
(* asyncio.Semaphore or asyncio.Lock does not suspend; the SQLAlchemy      *)
(* session calls are synchronous.                                          *)
(***************************************************************************)
EXTENDS Integers, Sequences, FiniteSets, TLC

\* ------------------------------------------------------------------ bounds
\* The region spans the tile columns 0..MaxTileX of one tile row.
MaxTileX == 2
\* Number of download_region calls in one behaviour of SpecRerun.
MaxRuns == 2
\* Longest provider_names list of a download_region call.
MaxProviders == 2
\* Number of commits the database may reject in one behaviour.
MaxCommitFailures == 1
\* settings.max_concurrent_downloads (config.py:42 ships 5; it is a setting,
\* kept below the number of tiles here so that the semaphore is contended).
max_concurrent_downloads == 2

\* ------------------------------------------------------- program constants
\* download_region: zoom = region.target_zoom or 16
DefaultZoom == 16

\* ------------------------------------------------------------------ values
None == <<>>
NoMessage == "None"

\* TileStatus (db/models.py)
PENDING == "pending"
DOWNLOADING == "downloading"
DOWNLOADED == "downloaded"
PROCESSING == "processing"
READY == "ready"
ERROR == "error"
TileStatus == {PENDING, DOWNLOADING, DOWNLOADED, PROCESSING, READY, ERROR}

\* The providers of the factory's _PROVIDER_CLASSES that the model exercises:
\* one that needs no API key and one that does.
NAIP == "naip"
GOOGLE == "google"
OSM == "osm"
\* the names of the enum the model tells apart: BING and MAPBOX behave as
\* GOOGLE here, SENTINEL, ESRI and CUSTOM as OSM
ProviderName == {NAIP, GOOGLE, OSM}
_PROVIDER_CLASSES == {NAIP, GOOGLE}

\* TileProvider.requires_api_key
requires_api_key(p) == p = GOOGLE

\* default file format of the provider's get_tile
file_format(p) == IF p = NAIP THEN "tif" ELSE "png"

RegionIds == {1}
\* an id with no row in the regions table
MissingRegionId == 2

\* settings.google_maps_api_key is non-empty (config.py:29 ships "")
google_maps_api_key == FALSE

\* provider_names lists of a call: every list of 0..MaxProviders names
ProviderLists ==
    UNION {[1..n -> _PROVIDER_CLASSES] : n \in 0..MaxProviders}

\* get_or_fetch: callers, keys and the fetches a behaviour may start
MaxCallers == 3
MaxFetches == 3
Callers == 1..MaxCallers
DedupKeys == {"naip:16:0:0", "naip:16:1:0"}
IdleCaller == [pc |-> "idle", key |-> "", fut |-> 0, result |-> 0]
\* a caller that has not called download_tile_with_cache
NoCall == [pc |-> "idle", key |-> "", success |-> FALSE, error |-> "",
           data |-> None]

\* overlapping runs: runs 1 and 2 are tasks of one server process (one event
\* loop), every further run is in a process of its own (a second worker, the
\* command line)
MaxOverlap == 3
OvRuns == 1..MaxOverlap
process_of(r) == IF r <= 2 THEN 1 ELSE r
OvKeys == {<<"naip", 16, 0, 0>>, <<"naip", 16, 1, 0>>}

\* TileCache: its settings, the clock, and the calls of a behaviour
max_size_bytes == 3
max_entries == 2
ttl == 1
MaxTime == 2
MaxCacheOps == 5
CacheKeys == {"naip:16:0:0", "naip:16:1:0", "naip:16:2:0"}
Bytes(n) == [i \in 1..n |-> 1]
\* tile data: two distinct one-byte bodies, a longer one, and one that is
\* larger than the whole cache
DataSet == {<<1>>, <<2>>, Bytes(2), Bytes(max_size_bytes + 1)}
NoOp == [op |-> "none", key |-> "", result |-> <<>>, evicted |-> {}]

\* HTTPClientManager: its callers, the calls of a behaviour, the provider keys
MaxHcCallers == 3
MaxHcOps == 4
HcCallers == 1..MaxHcCallers
HcKeys == {"naip", "google"}
HcIdle == [op |-> "none", provider |-> "none", pc |-> "idle", result |-> 0,
           todo |-> {}, closed_n |-> 0, seq |-> 0]

\* Web-Mercator tile grid.  Longitudes and latitudes are counted in grid
\* units: the grid is World units wide and high, World a multiple of the
\* tiles per axis of every zoom of the model.  Longitude lon stands for
\* lon * 360 / World - 180 degrees; latitude lat stands for the latitude
\* whose Mercator ordinate (1 - asinh(tan(lat)) / pi) / 2 is
\* (World - lat) / World, so lat grows northwards as degrees do.  In these
\* units the arithmetic of base.py is exact.
MaxZoom == 2
SubGrid == 2
World == (2 ^ MaxZoom) * SubGrid
Zooms == 0..MaxZoom
\* one unit beyond the grid on either side: longitudes and latitudes the
\* functions accept although no tile holds them
GeoPoints == (0 - 1)..(World + 1)
NoGeo == [op |-> "none", lon |-> 0, lat |-> 0, zoom |-> 0, tile |-> <<>>,
          bounds |-> <<>>, tiles |-> {}, error |-> ""]
\* the floats a caller may pass (get_tile_preview takes any float): a finite
\* value of the grid units above, or one whose scaled value is not finite:
\* "inf" is an infinity, or a finite float so large that
\* (lon + 180.0) / 360.0 * n overflows to one (1e308 at zoom 16); "nan" is a
\* NaN
GeoFloats ==
    {[cls |-> "finite", v |-> p] : p \in GeoPoints}
        \cup {[cls |-> "inf", v |-> 0], [cls |-> "nan", v |-> 0]}

\* Maintenance operations: the rows of the tiles table of a behaviour, the
\* limit of the missing_coords list of verify_coverage
MaxRows == 3
MissingCoordsLimit == 20
MsgFileNotFound == "File not found"

\* Comparison routes: the tiles table holds the rows 1..MaxCmTiles, the last
\* of them ERROR and the others READY with a file, all at one place; the
\* next id has no row.  What TileComparator.compare returns is one of two
\* results ("none": the dict without scores).
MaxCmTiles == 3
CmTileIds == 1..MaxCmTiles
CmRequestIds == 1..(MaxCmTiles + 1)
CmStatus(id) == IF id = MaxCmTiles THEN ERROR ELSE READY
CmResults == {"none", "scores"}
CmPlaces == {"here", "elsewhere"}
NoResponse == [op |-> "none", a |-> 0, b |-> 0, code |-> 0, body |-> <<>>,
               computed |-> 0]

\* error strings
MsgNoKey == "Google Maps API key not configured"
MsgHttp == "HTTP error"
MsgStorage == "storage error"

VARIABLES
    regions,            \* region id -> Region row (committed state)
    db_providers,       \* names of the Provider rows
    tiles,              \* tile key -> Tile row (committed state)
    files,              \* storage path -> bytes of the file at that path
    run_pc,             \* "idle" | "gather" | "returned" | "raised" | "crashed"
    run_args,           \* [region_id, provider_names, zoom] of the current call
    run_pidx,           \* index of the provider being processed
    task_pc,            \* tile coordinate -> "waiting" | "fetching" | "done"
    task_result,        \* tile coordinate -> "none" | "true" | "false" | "exc"
    semaphore,          \* value of the provider run's asyncio.Semaphore
    session_ok,         \* the run's Session has no failed flush pending
    pending_total,      \* region.total_tiles set but not yet committed (-1: none)
    commit_failures,    \* commits rejected so far
    runs_left,          \* download_region calls the behaviour may still make
    prev_run,           \* the call before the current one: [same_args, pc]
    get_tile_calls,     \* tile key -> number of provider.get_tile calls of the run
    failed_fetches,     \* number of get_tile calls of the run that did not succeed
    start_tiles,        \* tiles when the run started
    start_downloaded,   \* region.downloaded_tiles when the run started
    touched,            \* <<provider index, coordinate>> pairs whose _download_tile began
    rejected_tiles      \* keys of the tiles of the run whose own commit was rejected

dlvars == <<regions, db_providers, tiles, files, run_pc,
            run_args, run_pidx, task_pc, task_result, semaphore, session_ok,
            pending_total, commit_failures, runs_left, prev_run,
            get_tile_calls, failed_fetches,
            start_tiles, start_downloaded, touched, rejected_tiles>>

\* RequestDeduplicator (http_client.py lines 120-179) and its callers
VARIABLES
    _pending,           \* key -> the future of the fetch in flight for the key
    futures,            \* future id -> [key, state, value, invoked]
    callers,            \* caller -> [pc, key, fut, result] of its get_or_fetch call
    fetch_invocations   \* number of fetch_func invocations so far

ddvars == <<_pending, futures, callers, fetch_invocations>>

\* download runs that overlap in time, each at the one tile they have in common
VARIABLES
    tile_table,         \* rows of the tiles table: [id, key, status]
    ov_pc,              \* run -> "start" | "queried" | "fetching" | "done" | "raised"
    ov_key,             \* run -> key of the tile the run is at
    ov_existing         \* run -> id of the row its query found (0: none)

ovvars == <<tile_table, ov_pc, ov_key, ov_existing>>

\* TileCache (http_client.py lines 25-117)
VARIABLES
    _cache,             \* the OrderedDict, oldest first: entries [key, data, created_at, size, hits]
    _current_size,      \* TileCache._current_size
    _hits,              \* TileCache._hits
    _misses,            \* TileCache._misses
    now,                \* datetime.utcnow(), in ticks
    cache_ops,          \* number of get, put and clear calls so far
    last_op,            \* the last call: [op, key, result, evicted]
    last_access         \* key -> cache_ops of its last get hit or put (0: never)

ccvars == <<_cache, _current_size, _hits, _misses, now, cache_ops, last_op,
            last_access>>

\* HTTPClientManager (http_client.py lines 182-234) and its callers
VARIABLES
    _clients,           \* provider key -> id of its httpx.AsyncClient
    _lock,              \* the caller inside "async with self._lock" (0: unlocked)
    _waiters,           \* callers suspended in _lock.acquire(), first come first
    hc_calls,           \* caller -> [op, provider, pc, result, todo, closed_n, seq]
    created_for,        \* client id -> the provider key it was created for
    closed_clients,     \* ids of the clients whose aclose() has been awaited
    hc_ops              \* number of calls made so far

hcvars == <<_clients, _lock, _waiters, hc_calls, created_for, closed_clients,
            hc_ops>>

\* the tile arithmetic of TileProvider (base.py lines 110-182)
VARIABLES
    geo                 \* the last computation: [op, lon, lat, zoom, tile, bounds, tiles, error]

gevars == <<geo>>

\* the database and the storage directory as the maintenance operations of
\* TileManager and the region routes find them
VARIABLES
    mt_regions,         \* region id -> [min_lon, min_lat, max_lon, max_lat, target_zoom, downloaded_tiles]
    mt_tiles,           \* tile id -> [key, region_id, status, file_path, download_date, error_message]
    mt_files,           \* the paths at which a file exists
    mt_last             \* the last operation: [op, region_id, result, error, again]

mtvars == <<mt_regions, mt_tiles, mt_files, mt_last>>

\* the comparison routes (api/routes/compare.py)
VARIABLES
    tile_comparisons,   \* rows of the table, by id: [tile_a_id, tile_b_id, result]
    cm_last             \* the last response: [op, a, b, code, body, computed]

cmvars == <<tile_comparisons, cm_last>>

\* TileProvider.download_tile_with_cache (base.py lines 245-299) and its
\* callers, on the shared cache and deduplicator above
VARIABLES
    wc_calls,           \* caller -> [pc, key, success, error, data] of its call
    saved               \* key -> the bytes written at the save path of the tile

wcvars == <<wc_calls, saved>>

vars == <<dlvars, ddvars, ovvars, ccvars, hcvars, gevars, mtvars, cmvars,
          wcvars>>

\* the variables each part of the model leaves alone
not_dl == <<ddvars, ovvars, ccvars, hcvars, gevars, mtvars, cmvars, wcvars>>
not_dd == <<dlvars, ovvars, ccvars, hcvars, gevars, mtvars, cmvars, wcvars>>
not_ov == <<dlvars, ddvars, ccvars, hcvars, gevars, mtvars, cmvars, wcvars>>
not_cc == <<dlvars, ddvars, ovvars, hcvars, gevars, mtvars, cmvars, wcvars>>
not_hc == <<dlvars, ddvars, ovvars, ccvars, gevars, mtvars, cmvars, wcvars>>
not_ge == <<dlvars, ddvars, ovvars, ccvars, hcvars, mtvars, cmvars, wcvars>>
not_mt == <<dlvars, ddvars, ovvars, ccvars, hcvars, gevars, cmvars, wcvars>>
not_cm == <<dlvars, ddvars, ovvars, ccvars, hcvars, gevars, mtvars, wcvars>>

\* download_tile_with_cache works on the cache and on the deduplicator
not_wc == <<dlvars, ovvars, hcvars, gevars, mtvars, cmvars>>

\* ----------------------------------------------------------------- helpers
EmptyFn == [c \in {} |-> "none"]
NoArgs == [region_id |-> 0, provider_names |-> <<>>, zoom |-> 0]
NoChecksum == <<>>
\* _calculate_checksum: the digest of the bytes (distinct bytes, distinct digests)
Sha256(bytes) == <<"sha256", bytes>>
\* bodies of the HTTP responses of the imagery servers
ResponseBodies == {"image-a", "image-b"}
\* Path.write_bytes (base.py line 236)
write_bytes_nothing(F, path, bytes) == F
write_bytes(F, path, bytes) ==
    [q \in DOMAIN F \cup {path} |-> IF q = path THEN bytes ELSE F[q]]

\* The columns of the uq_tile_coords constraint: (provider, zoom, tile_x, tile_y).
Key(p, z, c) == <<p, z, c[1], c[2]>>

\* TileProvider.get_storage_path: tiles_dir/<provider>/<zoom>/<x>/<y>.<format>
get_storage_path(p, z, c) == <<p, z, c[1], c[2], file_format(p)>>

\* The tile list of a provider run: provider.bounds_to_tiles(region bounds, zoom),
\* the product of the x range and the y range that cover the region.
bounds_to_tiles(reg) ==
    {<<x, y>> : x \in reg.min_x..reg.max_x, y \in reg.min_y..reg.max_y}

\* download_region: zoom argument, else region.target_zoom, else 16
\* (0 stands for None; Python's "or" treats both alike).
resolve_zoom(zoom_arg, reg) ==
    IF zoom_arg # 0 THEN zoom_arg
    ELSE IF reg.target_zoom # 0 THEN reg.target_zoom ELSE DefaultZoom

RunActive == run_pc = "gather"
RunEnded == run_pc \in {"returned", "raised", "crashed"}

\* the provider the run is processing and the key of coordinate c in it
CurProvider == run_args.provider_names[run_pidx]
CurKey(c) == Key(CurProvider, run_args.zoom, c)

\* A new Tile row as _download_tile builds it (lines 129-143).
NewTile(rid) ==
    [region_id |-> rid, status |-> DOWNLOADING, file_path |-> None,
     checksum_sha256 |-> NoChecksum, error_message |-> NoMessage]

\* _download_tile lines 120-146: existing row set to DOWNLOADING, or a new row.
MarkDownloading(T, k, rid) ==
    IF k \in DOMAIN T
    THEN [T EXCEPT ![k].status = DOWNLOADING]
    ELSE T @@ (k :> NewTile(rid))

\* _download_tile lines 152-161
MarkReady_DOWNLOADED(T, k, path, F) ==
    [T EXCEPT ![k].status = DOWNLOADED,
              ![k].file_path = path,
              ![k].checksum_sha256 =
                  IF path \in DOMAIN F THEN Sha256(F[path]) ELSE @]
MarkReady(T, k, path, F) ==
    [T EXCEPT ![k].status = READY,
              ![k].file_path = path,
              ![k].checksum_sha256 =
                  IF path \in DOMAIN F THEN Sha256(F[path]) ELSE @]

\* _download_tile lines 166-167 and 172-173
MarkError_no_message(T, k, msg) == [T EXCEPT ![k].status = ERROR]
MarkError(T, k, msg) ==
    [T EXCEPT ![k].status = ERROR, ![k].error_message = msg]

\* A successful commit also writes region.total_tiles when the run set it
\* (line 76) and has not committed it yet.
Flush(R) ==
    IF pending_total >= 0
    THEN [R EXCEPT ![run_args.region_id].total_tiles = pending_total]
    ELSE R

\* ------------------------------------------------------------------- Init
\* HTTPClientManager.__init__ (http_client.py lines 200-201): no client, the
\* lock free; no call made yet.
InitHttpClients ==
    /\ _clients = EmptyFn
    /\ _lock = 0
    /\ _waiters = <<>>
    /\ hc_calls = [c \in HcCallers |-> HcIdle]
    /\ created_for = <<>>
    /\ closed_clients = {}
    /\ hc_ops = 0

\* no region and no tile in the tables the maintenance operations work on
NoMaint == [op |-> "none", region_id |-> 0, result |-> 0, error |-> "",
            again |-> FALSE]
InitNoTables ==
    /\ mt_regions = EmptyFn
    /\ mt_tiles = EmptyFn
    /\ mt_files = {}
    /\ mt_last = NoMaint

\* The database after create_region (regions.py lines 99-121) for a region
\* that spans the tile columns 0..max_x, before any download.
InitServices(max_x, runs) ==
    /\ InitHttpClients
    /\ tile_comparisons = <<>>
    /\ cm_last = NoResponse
    /\ geo = NoGeo
    /\ regions = [rid \in RegionIds |->
                    [min_x |-> 0, max_x |-> max_x, min_y |-> 0, max_y |-> 0,
                     target_zoom |-> 0, total_tiles |-> max_x + 1,
                     downloaded_tiles |-> 0, is_complete |-> FALSE]]
    /\ db_providers = {}
    /\ tiles = EmptyFn
    /\ files = EmptyFn
    /\ run_pc = "idle"
    /\ run_args = NoArgs
    /\ run_pidx = 0
    /\ task_pc = EmptyFn
    /\ task_result = EmptyFn
    /\ semaphore = 0
    /\ session_ok = TRUE
    /\ pending_total = -1
    /\ commit_failures = 0
    /\ runs_left = runs
    /\ prev_run = [same_args |-> FALSE, pc |-> "idle"]
    /\ get_tile_calls = EmptyFn
    /\ failed_fetches = 0
    /\ start_tiles = EmptyFn
    /\ start_downloaded = 0
    /\ touched = {}
    /\ rejected_tiles = {}
    /\ _pending = EmptyFn
    /\ futures = <<>>
    /\ callers = [c \in Callers |-> IdleCaller]
    /\ fetch_invocations = 0
    /\ tile_table = {}
    /\ _cache = <<>>
    /\ _current_size = 0
    /\ _hits = 0
    /\ _misses = 0
    /\ now = 0
    /\ cache_ops = 0
    /\ last_op = NoOp
    /\ last_access = [k \in CacheKeys |-> 0]
    /\ ov_pc = [r \in OvRuns |-> "start"]
    /\ ov_key = [r \in OvRuns |-> <<>>]
    /\ ov_existing = [r \in OvRuns |-> 0]
    /\ wc_calls = [c \in Callers |-> NoCall]
    /\ saved = EmptyFn

InitWith(max_x, runs) == InitServices(max_x, runs) /\ InitNoTables

\* One download_region call on a region of MaxTileX + 1 tiles.
Init == InitWith(MaxTileX, 1)

\* MaxRuns calls, one after the other, on a region of MaxTileX tiles.
InitRerun == InitWith(MaxTileX - 1, MaxRuns)

\* ---------------------------------------------------------------- actions
\* A commit may be rejected by the database (a failed flush).  SQLAlchemy then
\* rolls the transaction back and leaves the Session inactive until
\* Session.rollback() is called, which the code never does: every later query
\* or commit on that Session raises.  pt names the point at which an action's
\* commit is rejected ("fail...") or the process is killed ("crash...").
IsFail(pt) == pt \in {"fail34", "fail58", "fail93", "fail146", "failres", "fail"}

\* line 53: the for loop has gone through the whole list
past_last_early(names, i) == i >= Len(names)
past_last(names, i) == i > Len(names)

\* download_region's loop arriving at provider number i of the list with the
\* committed region table R: _download_region_from_provider lines 67-88 up to
\* the gather, or, past the end of the list, lines 57-58.
Advance(args, i, R, pt) ==
    LET names == args.provider_names
        rid == args.region_id
        coords == bounds_to_tiles(R[rid])
        raised == [valid |-> TRUE, pc |-> "raised", regions |-> R,
                   db_providers |-> db_providers, pidx |-> i,
                   task_pc |-> EmptyFn, task_result |-> EmptyFn,
                   semaphore |-> 0, pending |-> -1, sess |-> FALSE, fails |-> 1]
    IN  IF ~past_last(names, i)
        THEN IF names[i] \notin _PROVIDER_CLASSES
             \* get_provider (factory.py lines 34-35) raises ValueError at line 67
             THEN [raised EXCEPT !.valid = (pt = "none"), !.sess = TRUE,
                                 !.fails = 0]
             ELSE IF pt = "fail34"
             \* ensure_provider line 34, reached only for a provider with no row
             THEN [raised EXCEPT !.valid = names[i] \notin db_providers]
             ELSE [valid |-> pt = "none", pc |-> "gather", regions |-> R,
                   db_providers |-> db_providers \cup {names[i]}, pidx |-> i,
                   task_pc |-> [c \in coords |-> "waiting"],
                   task_result |-> [c \in coords |-> "none"],
                   semaphore |-> max_concurrent_downloads,
                   pending |-> Cardinality(coords) * 1,
                   sess |-> TRUE, fails |-> 0]
        ELSE IF pt = "fail58"
             THEN raised
             ELSE [valid |-> pt = "none", pc |-> "returned",
                   regions |-> [R EXCEPT ![rid].is_complete = TRUE],
                   db_providers |-> db_providers, pidx |-> i,
                   task_pc |-> EmptyFn, task_result |-> EmptyFn,
                   semaphore |-> 0, pending |-> -1, sess |-> TRUE, fails |-> 0]

\* download_region lines 45-54: the call, up to the first provider's gather.
\* Calls do not overlap: a call starts when no other is running.
download_region(rid, names, zoom_arg, pt) ==
    LET args == [region_id |-> rid, provider_names |-> names,
                 zoom |-> resolve_zoom(zoom_arg, regions[rid])]
        o == Advance(args, 1, regions, pt)
    IN  /\ ~RunActive
        /\ runs_left > 0
        /\ rid \in DOMAIN regions
        /\ IsFail(pt) => commit_failures < MaxCommitFailures
        /\ o.valid
        /\ runs_left' = runs_left - 1
        /\ prev_run' = [same_args |-> (args = run_args), pc |-> run_pc]
        /\ run_pc' = o.pc
        /\ run_args' = args
        /\ run_pidx' = o.pidx
        /\ regions' = o.regions
        /\ db_providers' = o.db_providers
        /\ task_pc' = o.task_pc
        /\ task_result' = o.task_result
        /\ semaphore' = o.semaphore
        /\ session_ok' = o.sess
        /\ pending_total' = o.pending
        /\ commit_failures' = commit_failures + o.fails
        /\ start_tiles' = tiles
        /\ start_downloaded' = regions[rid].downloaded_tiles
        /\ get_tile_calls' = EmptyFn
        /\ failed_fetches' = 0
        /\ touched' = {}
        /\ rejected_tiles' = {}
        /\ UNCHANGED <<tiles, files>>

\* download_region lines 45-47: no region has the id, ValueError
download_region_not_found(rid) ==
    /\ ~RunActive
    /\ runs_left > 0
    /\ rid \notin DOMAIN regions
    /\ runs_left' = runs_left - 1
    /\ prev_run' = [same_args |-> FALSE, pc |-> run_pc]
    /\ run_pc' = "raised"
    /\ UNCHANGED <<regions, db_providers, tiles, files, run_args, run_pidx,
                   task_pc, task_result, semaphore, session_ok, pending_total,
                   commit_failures, get_tile_calls, failed_fetches,
                   start_tiles, start_downloaded, touched, rejected_tiles>>

\* _download_tile line 117: the row exists and is READY
AlreadyReady_DOWNLOADED(T, k) == k \in DOMAIN T /\ T[k].status = DOWNLOADED
AlreadyReady_or_DOWNLOADING(T, k) ==
    k \in DOMAIN T /\ T[k].status \in {READY, DOWNLOADING}
AlreadyReady(T, k) == k \in DOMAIN T /\ T[k].status = READY

\* asyncio.Semaphore: "async with semaphore" (line 82) enters when the value
\* is positive and takes one; leaving gives it back, however the body ended.
can_acquire_at_zero(sem) == sem >= 0
can_acquire(sem) == sem > 0
release_on_success(sem, outcome) == IF outcome = "ok" THEN sem + 1 ELSE sem
release(sem, outcome) == sem + 1

\* What one task does from acquiring the semaphore (line 82) to its first
\* suspension or its end: _download_tile lines 105-149 and, when get_tile
\* answers without network I/O, lines 165-175.  se: get_storage_path raises.
TileStartOutcome(c, pt, se) ==
    LET p == CurProvider
        k == CurKey(c)
        rid == run_args.region_id
        tD == MarkDownloading(tiles, k, rid)
        base == [valid |-> TRUE, tiles |-> tiles, tpc |-> "done",
                 result |-> "exc", sess |-> session_ok, fails |-> 0,
                 calls |-> 0, failed |-> 0, crash |-> FALSE,
                 committed |-> FALSE]
        nokey == requires_api_key(p) /\ ~google_maps_api_key
    IN  IF ~session_ok
        \* the query of line 106 raises on the inactive Session
        THEN [base EXCEPT !.valid = (pt = "none" /\ ~se)]
        ELSE IF AlreadyReady(tiles, k)
        \* line 117-118
        THEN [base EXCEPT !.valid = (pt = "none" /\ ~se), !.result = "true"]
        ELSE IF pt = "fail146"
        THEN [base EXCEPT !.valid = ~se, !.sess = FALSE, !.fails = 1]
        ELSE IF pt = "crash146"
        THEN [base EXCEPT !.valid = ~se, !.tiles = tD, !.crash = TRUE,
                          !.committed = TRUE]
        ELSE IF nokey \/ se
        \* get_tile returns a failed result (no key) or raises (storage):
        \* lines 166-168 or 172-174
        THEN LET msg == IF nokey THEN MsgNoKey ELSE MsgStorage
             IN IF pt = "failres"
                THEN [base EXCEPT !.valid = (nokey => ~se), !.tiles = tD,
                                  !.sess = FALSE, !.fails = 1, !.calls = 1,
                                  !.failed = 1, !.committed = TRUE]
                ELSE [base EXCEPT !.valid = (pt = "none" /\ (nokey => ~se)),
                                  !.tiles = MarkError(tD, k, msg),
                                  !.result = "false", !.calls = 1,
                                  !.failed = 1, !.committed = TRUE]
        \* get_tile suspends in the HTTP request
        ELSE [base EXCEPT !.valid = (pt = "none"), !.tiles = tD,
                          !.tpc = "fetching", !.result = "none", !.calls = 1,
                          !.committed = TRUE]

\* The event loop starts the tasks of a gather in list order, and a semaphore
\* wakes its waiters in the order they arrived: the next task to enter
\* _download_tile is the first of the list that has not entered yet.
\* bounds_to_tiles lists the tiles by x, then y.
Before(d, c) == d[1] < c[1] \/ (d[1] = c[1] /\ d[2] < c[2])
StartsNext(c) == \A d \in DOMAIN task_pc : Before(d, c) => task_pc[d] # "waiting"

BumpCall(calls, k, n) ==
    IF n = 0 THEN calls
    ELSE IF k \in DOMAIN calls THEN [calls EXCEPT ![k] = @ + n]
    ELSE calls @@ (k :> n)

\* The run ends (returns, raises or is killed): its tasks are gone.
EndRun(pc) ==
    /\ run_pc' = pc
    /\ task_pc' = EmptyFn
    /\ task_result' = EmptyFn
    /\ semaphore' = 0

download_with_limit(c, pt, se) ==
    LET o == TileStartOutcome(c, pt, se)
        k == CurKey(c)
    IN  /\ RunActive
        /\ c \in DOMAIN task_pc
        /\ task_pc[c] = "waiting"
        /\ StartsNext(c)
        /\ can_acquire(semaphore)
        /\ IsFail(pt) => commit_failures < MaxCommitFailures
        /\ o.valid
        /\ tiles' = o.tiles
        /\ regions' = IF o.committed THEN Flush(regions) ELSE regions
        /\ pending_total' = IF o.committed \/ ~o.sess THEN -1 ELSE pending_total
        /\ session_ok' = o.sess
        /\ commit_failures' = commit_failures + o.fails
        /\ get_tile_calls' = BumpCall(get_tile_calls, k, o.calls)
        /\ failed_fetches' = failed_fetches + o.failed
        /\ touched' = touched \cup {<<run_pidx, c>>}
        /\ rejected_tiles' = IF o.fails > 0 THEN rejected_tiles \cup {k}
                              ELSE rejected_tiles
        /\ IF o.crash
           THEN EndRun("crashed")
           ELSE /\ task_pc' = [task_pc EXCEPT ![c] = o.tpc]
                /\ task_result' = [task_result EXCEPT ![c] = o.result]
                /\ semaphore' = IF o.tpc = "fetching" THEN semaphore - 1 ELSE semaphore
                /\ UNCHANGED run_pc
        /\ UNCHANGED <<db_providers, files, run_args, run_pidx, runs_left,
                       prev_run, start_tiles, start_downloaded>>

\* The HTTP request of a task's get_tile ends and the task runs to its end:
\* download_tile_image lines 234-243, the provider's TileResult, and
\* _download_tile lines 151-175; then the semaphore is released.
\* outcome "ok": the response was written to the storage path;
\* outcome "error": download_tile_image returned (False, message).
get_tile_done(c, outcome, body, pt) ==
    LET p == CurProvider
        k == CurKey(c)
        path == get_storage_path(p, run_args.zoom, c)
        written == IF outcome = "ok" THEN write_bytes(files, path, body)
                   ELSE files
        marked == IF outcome = "ok"
                  THEN MarkReady(tiles, k, path, written)
                  ELSE MarkError(tiles, k, MsgHttp)
        \* a rejected commit at line 163 or 168 is caught at line 171, and the
        \* commit of line 174 then raises on the inactive Session
        commits == session_ok /\ pt = "none"
    IN  /\ RunActive
        /\ c \in DOMAIN task_pc
        /\ task_pc[c] = "fetching"
        /\ outcome \in {"ok", "error"}
        /\ body \in ResponseBodies
        /\ pt \in {"none", "fail", "crash"}
        /\ pt = "fail" => session_ok /\ commit_failures < MaxCommitFailures
        /\ pt = "crash" => outcome = "ok"
        /\ files' = written
        /\ tiles' = IF commits THEN marked ELSE tiles
        /\ session_ok' = (session_ok /\ pt # "fail")
        /\ commit_failures' = commit_failures + (IF pt = "fail" THEN 1 ELSE 0)
        /\ failed_fetches' = failed_fetches + (IF outcome = "ok" THEN 0 ELSE 1)
        /\ rejected_tiles' = IF pt = "fail" THEN rejected_tiles \cup {k}
                              ELSE rejected_tiles
        /\ IF pt = "crash"
           THEN EndRun("crashed")
           ELSE /\ task_pc' = [task_pc EXCEPT ![c] = "done"]
                /\ task_result' =
                       [task_result EXCEPT ![c] =
                            IF ~commits THEN "exc"
                            ELSE IF outcome = "ok" THEN "true" ELSE "false"]
                /\ semaphore' = release(semaphore, outcome)
                /\ UNCHANGED run_pc
        /\ UNCHANGED <<regions, db_providers, run_args, run_pidx,
                       pending_total, runs_left, prev_run, get_tile_calls,
                       start_tiles, start_downloaded, touched>>

\* asyncio.gather(..., return_exceptions=True) returns once every task of the
\* provider run has ended.
gather_ready_first(tp) == \E c \in DOMAIN tp : tp[c] = "done"
gather_ready(tp) == \A c \in DOMAIN tp : tp[c] = "done"

\* line 91
success_count_all(results) == Cardinality(DOMAIN results)
success_count(results) ==
    Cardinality({c \in DOMAIN results : results[c] = "true"})

\* The gather returns: _download_region_from_provider lines 90-93, then the
\* loop of download_region goes on to the next provider or to lines 57-58.
gather_done(pt) ==
    LET rid == run_args.region_id
        R1 == [Flush(regions) EXCEPT ![rid].downloaded_tiles = success_count(task_result)]
        o == Advance(run_args, run_pidx + 1, R1, pt)
        fail93 == ~session_ok \/ pt = "fail93"
    IN  /\ RunActive
        /\ gather_ready(task_pc)
        /\ pt \in {"none", "fail93", "crash93", "fail34", "fail58"}
        /\ IsFail(pt) => session_ok /\ commit_failures < MaxCommitFailures
        /\ ~session_ok => pt = "none"
        /\ pt \notin {"fail93", "crash93"} /\ session_ok => o.valid
        /\ IF fail93
           THEN /\ EndRun("raised")
                /\ session_ok' = FALSE
                /\ commit_failures' =
                       commit_failures + (IF pt = "fail93" THEN 1 ELSE 0)
                /\ pending_total' = -1
                /\ UNCHANGED <<regions, db_providers, run_pidx>>
           ELSE IF pt = "crash93"
           THEN /\ EndRun("crashed")
                /\ regions' = R1
                /\ pending_total' = -1
                /\ UNCHANGED <<db_providers, run_pidx, session_ok,
                               commit_failures>>
           ELSE /\ run_pc' = o.pc
                /\ run_pidx' = o.pidx
                /\ regions' = o.regions
                /\ db_providers' = o.db_providers
                /\ task_pc' = o.task_pc
                /\ task_result' = o.task_result
                /\ semaphore' = o.semaphore
                /\ session_ok' = o.sess
                /\ pending_total' = o.pending
                /\ commit_failures' = commit_failures + o.fails
        /\ UNCHANGED <<tiles, files, run_args, runs_left, prev_run,
                       get_tile_calls, failed_fetches, start_tiles,
                       start_downloaded, touched, rejected_tiles>>

\* The process is killed while the run is suspended in its gather.
Crash ==
    /\ RunActive
    /\ EndRun("crashed")
    /\ UNCHANGED <<regions, db_providers, tiles, files, run_args, run_pidx,
                   session_ok, pending_total, commit_failures, runs_left,
                   prev_run, get_tile_calls, failed_fetches, start_tiles,
                   start_downloaded, touched, rejected_tiles>>

\* ------------------------------------------------------------------- Next
ZoomArgs == {0}

StartPoints == {"none", "fail34", "fail58"}
TilePoints == {"none", "fail146", "crash146", "failres"}
FetchPoints == {"none", "fail", "crash"}
GatherPoints == {"none", "fail93", "crash93", "fail34", "fail58"}

Next ==
    \/ \E rid \in RegionIds, names \in ProviderLists, z \in ZoomArgs,
          pt \in StartPoints :
            download_region(rid, names, z, pt) /\ UNCHANGED not_dl
    \/ \E x \in 0..MaxTileX, pt \in TilePoints, se \in BOOLEAN :
            download_with_limit(<<x, 0>>, pt, se) /\ UNCHANGED not_dl
    \/ \E x \in 0..MaxTileX, outcome \in {"ok", "error"},
          body \in ResponseBodies, pt \in FetchPoints :
            get_tile_done(<<x, 0>>, outcome, body, pt) /\ UNCHANGED not_dl
    \/ \E pt \in GatherPoints : gather_done(pt) /\ UNCHANGED not_dl
    \/ Crash /\ UNCHANGED not_dl

Spec == Init /\ [][Next]_vars

SpecRerun == InitRerun /\ [][Next]_vars

\* Calls with any region id and any list of names of the enum.
AnyProviderLists ==
    UNION {[1..n -> ProviderName] : n \in 0..MaxProviders}

NextAny ==
    \/ \E rid \in RegionIds, names \in AnyProviderLists, z \in ZoomArgs,
          pt \in StartPoints :
            download_region(rid, names, z, pt) /\ UNCHANGED not_dl
    \/ download_region_not_found(MissingRegionId) /\ UNCHANGED not_dl
    \/ \E x \in 0..MaxTileX, pt \in TilePoints, se \in BOOLEAN :
            download_with_limit(<<x, 0>>, pt, se) /\ UNCHANGED not_dl
    \/ \E x \in 0..MaxTileX, outcome \in {"ok", "error"},
          body \in ResponseBodies, pt \in FetchPoints :
            get_tile_done(<<x, 0>>, outcome, body, pt) /\ UNCHANGED not_dl
    \/ \E pt \in GatherPoints : gather_done(pt) /\ UNCHANGED not_dl
    \/ Crash /\ UNCHANGED not_dl

SpecAny == Init /\ [][NextAny]_vars

\* Every download_region call that is not killed keeps taking steps: the event
\* loop runs every task that can run, and every HTTP request ends.
Progress ==
    \/ \E x \in 0..MaxTileX, pt \in TilePoints, se \in BOOLEAN :
            download_with_limit(<<x, 0>>, pt, se) /\ UNCHANGED not_dl
    \/ \E x \in 0..MaxTileX, outcome \in {"ok", "error"},
          body \in ResponseBodies, pt \in FetchPoints :
            get_tile_done(<<x, 0>>, outcome, body, pt) /\ UNCHANGED not_dl
    \/ \E pt \in GatherPoints : gather_done(pt) /\ UNCHANGED not_dl

FairSpec == Init /\ [][Next]_vars /\ WF_vars(Progress)

\* ---------------------------------------------------- RequestDeduplicator
\* asyncio.Lock is free whenever a coroutine reaches "async with self._lock":
\* no holder awaits inside the block, so each block runs in one step.
Done(f) == futures[f].state \in {"result", "exception"}
\* the task of the future's fetch is scheduled or suspended in fetch_func
FetchRunning(f) == futures[f].state \in {"created", "fetching"}

\* line 156
KeyPending_never(P, key) == FALSE
KeyPending(P, key) == key \in DOMAIN P

\* dict assignment (line 162) and dict.pop(key, None) (line 179)
Store(P, key, f) == [k \in DOMAIN P \cup {key} |-> IF k = key THEN f ELSE P[k]]
Pop_kept(P, key) == P
Pop(P, key) == [k \in DOMAIN P \ {key} |-> P[k]]

\* get_or_fetch lines 153-168, up to "await future"
get_or_fetch(c, key) ==
    /\ callers[c].pc = "idle"
    /\ IF KeyPending(_pending, key)
       THEN /\ callers' = [callers EXCEPT ![c] =
                    [pc |-> "awaiting", key |-> key, fut |-> _pending[key],
                     result |-> 0]]
            /\ UNCHANGED <<_pending, futures>>
       ELSE /\ Len(futures) < MaxFetches
            /\ futures' = Append(futures,
                    [key |-> key, state |-> "created", value |-> 0,
                     invoked |-> 0])
            /\ _pending' = Store(_pending, key, Len(futures) + 1)
            /\ callers' = [callers EXCEPT ![c] =
                    [pc |-> "awaiting", key |-> key, fut |-> Len(futures) + 1,
                     result |-> 0]]
    /\ UNCHANGED fetch_invocations

\* _do_fetch lines 172-173: the task starts and calls fetch_func, which
\* suspends; what this invocation will answer is its ordinal.
do_fetch_start(f) ==
    /\ f \in DOMAIN futures
    /\ futures[f].state = "created"
    /\ fetch_invocations' = fetch_invocations + 1
    /\ futures' = [futures EXCEPT ![f].state = "fetching",
                                  ![f].invoked = @ + 1,
                                  ![f].value = fetch_invocations + 1]
    /\ UNCHANGED <<_pending, callers>>

\* _do_fetch lines 174-179: fetch_func answers or raises, the future is
\* resolved and the key leaves _pending.
do_fetch_end(f, ok) ==
    /\ f \in DOMAIN futures
    /\ futures[f].state = "fetching"
    /\ futures' = [futures EXCEPT
                      ![f].state = IF ok THEN "result" ELSE "exception"]
    /\ _pending' = Pop(_pending, futures[f].key)
    /\ UNCHANGED <<callers, fetch_invocations>>

\* _do_fetch lines 173-179 when fetch_func ends with a BaseException that is
\* not an Exception (asyncio.CancelledError: the task is cancelled at its
\* await): "except Exception" (line 175) does not catch it, the finally
\* block pops the key and the task ends; the future is left unresolved.
do_fetch_cancelled(f) ==
    /\ f \in DOMAIN futures
    /\ futures[f].state = "fetching"
    /\ futures' = [futures EXCEPT ![f].state = "unresolved"]
    /\ _pending' = Pop(_pending, futures[f].key)
    /\ UNCHANGED <<callers, fetch_invocations>>

\* line 168: "await future" ends with the result or the exception of the future
await_future(c) ==
    /\ callers[c].pc = "awaiting"
    /\ Done(callers[c].fut)
    /\ callers' = [callers EXCEPT
                      ![c].pc = IF futures[callers[c].fut].state = "result"
                                THEN "returned" ELSE "raised",
                      ![c].result = futures[callers[c].fut].value]
    /\ UNCHANGED <<_pending, futures, fetch_invocations>>

NextDedup ==
    \/ \E c \in Callers, key \in DedupKeys :
            get_or_fetch(c, key) /\ UNCHANGED not_dd
    \/ \E f \in 1..MaxFetches : do_fetch_start(f) /\ UNCHANGED not_dd
    \/ \E f \in 1..MaxFetches, ok \in BOOLEAN :
            do_fetch_end(f, ok) /\ UNCHANGED not_dd
    \/ \E c \in Callers : await_future(c) /\ UNCHANGED not_dd
    \/ \E f \in 1..MaxFetches : do_fetch_cancelled(f) /\ UNCHANGED not_dd

SpecDedup == Init /\ [][NextDedup]_vars

\* -------------------------------------------------------- overlapping runs
\* _download_tile of runs that overlap in time, each with a Session of its
\* own.  Within one process the code from the query (line 106) to the commit
\* (line 146) runs without suspension; runs of different processes interleave
\* anywhere.
RowsOf(T, key) == {row \in T : row.key = key}

\* UniqueConstraint uq_tile_coords (models.py lines 177-183): the database
\* accepts the INSERT of a row for key when it has no row for it
uq_tile_coords_unchecked(T, key) == TRUE
uq_tile_coords(T, key) == RowsOf(T, key) = {}

SetStatus(T, id, st) ==
    {IF row.id = id THEN [row EXCEPT !.status = st] ELSE row : row \in T}

\* lines 106-118: the query, and the early return for a READY row
query_tile(r, key) ==
    /\ ov_pc[r] = "start"
    /\ \A q \in OvRuns \ {r} :
          process_of(q) = process_of(r) => ov_pc[q] # "queried"
    /\ ov_key' = [ov_key EXCEPT ![r] = key]
    /\ \/ /\ RowsOf(tile_table, key) = {}
          /\ ov_existing' = [ov_existing EXCEPT ![r] = 0]
          /\ ov_pc' = [ov_pc EXCEPT ![r] = "queried"]
       \/ \E row \in RowsOf(tile_table, key) :
             /\ ov_existing' = [ov_existing EXCEPT ![r] = row.id]
             /\ ov_pc' = [ov_pc EXCEPT ![r] =
                             IF row.status = READY THEN "done" ELSE "queried"]
    /\ UNCHANGED tile_table

\* lines 121-149: the row is updated or inserted as DOWNLOADING and committed,
\* then get_tile suspends in the request; a rejected INSERT raises out of
\* _download_tile
commit_downloading(r) ==
    /\ ov_pc[r] = "queried"
    /\ IF ov_existing[r] # 0
       THEN /\ tile_table' = SetStatus(tile_table, ov_existing[r], DOWNLOADING)
            /\ ov_pc' = [ov_pc EXCEPT ![r] = "fetching"]
            /\ UNCHANGED ov_existing
       ELSE IF uq_tile_coords(tile_table, ov_key[r])
       THEN /\ tile_table' = tile_table \cup
                   {[id |-> Cardinality(tile_table) + 1, key |-> ov_key[r],
                     status |-> DOWNLOADING]}
            /\ ov_existing' =
                   [ov_existing EXCEPT ![r] = Cardinality(tile_table) + 1]
            /\ ov_pc' = [ov_pc EXCEPT ![r] = "fetching"]
       ELSE /\ ov_pc' = [ov_pc EXCEPT ![r] = "raised"]
            /\ UNCHANGED <<tile_table, ov_existing>>
    /\ UNCHANGED ov_key

\* lines 149-175: get_tile answers and the row is committed READY or ERROR;
\* a task resumes only when no task of its event loop is between its query
\* and its commit, which have no await between them
fetch_done(r, ok) ==
    /\ ov_pc[r] = "fetching"
    /\ \A q \in OvRuns \ {r} :
          process_of(q) = process_of(r) => ov_pc[q] # "queried"
    /\ tile_table' = SetStatus(tile_table, ov_existing[r],
                               IF ok THEN READY ELSE ERROR)
    /\ ov_pc' = [ov_pc EXCEPT ![r] = "done"]
    /\ UNCHANGED <<ov_key, ov_existing>>

NextOverlap ==
    \/ \E r \in OvRuns, key \in OvKeys : query_tile(r, key) /\ UNCHANGED not_ov
    \/ \E r \in OvRuns : commit_downloading(r) /\ UNCHANGED not_ov
    \/ \E r \in OvRuns, ok \in BOOLEAN : fetch_done(r, ok) /\ UNCHANGED not_ov

SpecOverlap == Init /\ [][NextOverlap]_vars

\* -------------------------------------------------------------- TileCache
\* Every method body runs under self._lock and has no await inside: one step.
CachedKeys(C) == {C[i].key : i \in 1..Len(C)}
EntryOf(C, key) == C[CHOOSE i \in 1..Len(C) : C[i].key = key]

\* _remove_entry (lines 95-99) on the pair [cache, size]
_remove_entry_keeps_size(st, key) ==
    [st EXCEPT !.cache = SelectSeq(st.cache, LAMBDA e : e.key # key)]
_remove_entry(st, key) ==
    IF key \in CachedKeys(st.cache)
    THEN [cache |-> SelectSeq(st.cache, LAMBDA e : e.key # key),
          size |-> st.size - EntryOf(st.cache, key).size]
    ELSE st

\* line 54: the entry is older than the TTL
expired_never(entry, t) == FALSE
expired(entry, t) == t - entry.created_at > ttl

\* OrderedDict.move_to_end and entry.hits += 1 (lines 60-61)
move_to_end_skipped(C, key) ==
    [i \in 1..Len(C) |-> IF C[i].key = key
                         THEN [C[i] EXCEPT !.hits = @ + 1] ELSE C[i]]
move_to_end(C, key) ==
    Append(SelectSeq(C, LAMBDA e : e.key # key),
           [EntryOf(C, key) EXCEPT !.hits = @ + 1])

\* the eviction loop of put (lines 79-84)
RECURSIVE evict_oldest(_, _)
evict_oldest(st, size) ==
    IF (st.size + size > max_size_bytes \/ Len(st.cache) >= max_entries)
       /\ st.cache # <<>>
    THEN evict_oldest(_remove_entry(st, Head(st.cache).key), size)
    ELSE st

\* TileCache.get (lines 46-66)
get(key) ==
    LET st == [cache |-> _cache, size |-> _current_size]
        present == key \in CachedKeys(_cache)
        hit == present /\ ~expired(EntryOf(_cache, key), now)
        st1 == IF present /\ ~hit THEN _remove_entry(st, key)
               ELSE IF hit THEN [st EXCEPT !.cache = move_to_end(_cache, key)]
               ELSE st
    IN  /\ cache_ops < MaxCacheOps
        /\ cache_ops' = cache_ops + 1
        /\ _cache' = st1.cache
        /\ _current_size' = st1.size
        /\ _hits' = IF hit THEN _hits + 1 ELSE _hits
        /\ _misses' = IF hit THEN _misses ELSE _misses + 1
        /\ last_op' = [op |-> "get", key |-> key,
                       result |-> IF hit THEN EntryOf(_cache, key).data ELSE None,
                       evicted |-> {}]
        /\ last_access' = IF hit THEN [last_access EXCEPT ![key] = cache_ops + 1]
                          ELSE last_access
        /\ UNCHANGED now

\* TileCache.put (lines 68-93)
put(key, data) ==
    LET size == Len(data)
        st0 == _remove_entry([cache |-> _cache, size |-> _current_size], key)
        st1 == evict_oldest(st0, size)
    IN  /\ cache_ops < MaxCacheOps
        /\ cache_ops' = cache_ops + 1
        /\ _cache' = Append(st1.cache,
                        [key |-> key, data |-> data, created_at |-> now,
                         size |-> size, hits |-> 0])
        /\ _current_size' = st1.size + size
        /\ last_op' = [op |-> "put", key |-> key, result |-> None,
                       evicted |-> CachedKeys(st0.cache) \ CachedKeys(st1.cache)]
        /\ last_access' = [last_access EXCEPT ![key] = cache_ops + 1]
        /\ UNCHANGED <<_hits, _misses, now>>

\* TileCache.clear (lines 101-105)
clear ==
    /\ cache_ops < MaxCacheOps
    /\ cache_ops' = cache_ops + 1
    /\ _cache' = <<>>
    /\ _current_size' = 0
    /\ last_op' = [NoOp EXCEPT !.op = "clear"]
    /\ UNCHANGED <<_hits, _misses, now, last_access>>

\* time passes
Tick ==
    /\ now < MaxTime
    /\ now' = now + 1
    /\ UNCHANGED <<_cache, _current_size, _hits, _misses, cache_ops, last_op,
                   last_access>>

NextCache ==
    \/ \E key \in CacheKeys : get(key) /\ UNCHANGED not_cc
    \/ \E key \in CacheKeys, data \in DataSet : put(key, data) /\ UNCHANGED not_cc
    \/ clear /\ UNCHANGED not_cc
    \/ Tick /\ UNCHANGED not_cc

SpecCache == Init /\ [][NextCache]_vars

\* ------------------------------------------- download_tile_with_cache
\* Calls of TileProvider.download_tile_with_cache with use_cache = True, as
\* tasks of one event loop on the global cache and the global deduplicator.
\* Neither lock is ever held across an await, so "await self._cache.get",
\* "await self._cache.put" and the locked block of get_or_fetch do not
\* suspend: a call runs from its start to "await future" in one step, and
\* from the end of that await to its return in another.

\* response.content of invocation number v of do_fetch (line 279)
response_content(v) == <<v>>

\* save_path.write_bytes(data) (lines 271 and 288)
write_saved(S, key, data) ==
    [k \in DOMAIN S \cup {key} |-> IF k = key THEN data ELSE S[k]]

\* lines 267-268: the cache returns the bytes of an entry that has not expired
cache_hit(key) ==
    key \in CachedKeys(_cache) /\ ~expired(EntryOf(_cache, key), now)

\* the call has ended: what it returned or raised
WcEnd(c, key, pc, success, error, data) ==
    wc_calls' = [wc_calls EXCEPT ![c] =
                    [pc |-> pc, key |-> key, success |-> success,
                     error |-> error, data |-> data]]

\* lines 263-284: the cache lookup; on a hit the bytes are written to the
\* save path and returned (a failing write raises out of the call, lines
\* 270-271 stand outside the try); on a miss get_or_fetch runs up to its
\* "await future".  wr: the write to the save path succeeds.
download_tile_with_cache(c, key, wr) ==
    /\ wc_calls[c].pc = "idle"
    /\ get(key)
    /\ IF cache_hit(key)
       THEN /\ IF wr
               THEN /\ saved' = write_saved(saved, key, EntryOf(_cache, key).data)
                    /\ WcEnd(c, key, "returned", TRUE, "",
                             EntryOf(_cache, key).data)
               ELSE /\ saved' = saved
                    /\ WcEnd(c, key, "raised", FALSE, "OSError", None)
            /\ UNCHANGED ddvars
       ELSE /\ wr
            /\ get_or_fetch(c, key)
            /\ wc_calls' = [wc_calls EXCEPT ![c].pc = "awaiting", ![c].key = key]
            /\ saved' = saved

\* lines 282-299: get_or_fetch returns the bytes or raises the exception of
\* the fetch; the bytes are written to the save path and put into the
\* cache; an exception, of the fetch or of the write, is returned as a
\* failure.
fetch_returned(c, wr) ==
    LET key == wc_calls[c].key
        f == callers[c].fut
        data == response_content(futures[f].value)
    IN  /\ wc_calls[c].pc = "awaiting"
        /\ await_future(c)
        /\ IF futures[f].state = "result" /\ wr
           THEN /\ saved' = write_saved(saved, key, data)
                /\ put(key, data)
                /\ WcEnd(c, key, "returned", TRUE, "", data)
           ELSE /\ futures[f].state = "exception" => wr
                /\ WcEnd(c, key, "returned", FALSE,
                         IF futures[f].state = "exception" THEN MsgHttp
                         ELSE "Download error", None)
                /\ UNCHANGED <<ccvars, saved>>

\* A caller whose future is resolved has been scheduled to resume (the
\* future's done callback, call_soon).  The task of a fetch for the same
\* key is created after that, so it starts, and its response is processed,
\* after the caller has resumed.
woken(key) ==
    \E c \in Callers :
        /\ wc_calls[c].pc = "awaiting"
        /\ wc_calls[c].key = key
        /\ Done(callers[c].fut)

NextCachedDownload ==
    \/ \E c \in Callers, key \in DedupKeys, wr \in BOOLEAN :
          download_tile_with_cache(c, key, wr) /\ UNCHANGED not_wc
    \/ \E f \in 1..MaxFetches :
          /\ f \in DOMAIN futures /\ ~woken(futures[f].key)
          /\ do_fetch_start(f) /\ UNCHANGED <<not_wc, ccvars, wcvars>>
    \/ \E f \in 1..MaxFetches, ok \in BOOLEAN :
          /\ f \in DOMAIN futures /\ ~woken(futures[f].key)
          /\ do_fetch_end(f, ok) /\ UNCHANGED <<not_wc, ccvars, wcvars>>
    \/ \E c \in Callers, wr \in BOOLEAN :
          fetch_returned(c, wr) /\ UNCHANGED not_wc
    \/ Tick /\ UNCHANGED <<not_wc, ddvars, wcvars>>

SpecCachedDownload == Init /\ [][NextCachedDownload]_vars

\* ------------------------------------------------------ HTTPClientManager
\* get_client line 213: "if provider not in self._clients"
must_create_always(clients, provider) == TRUE
must_create(clients, provider) == provider \notin DOMAIN clients

\* close_client line 232: "if provider in self._clients"
has_client_always(clients, provider) == TRUE
has_client(clients, provider) == provider \in DOMAIN clients

\* self._clients[provider] = client
set_client(clients, provider, id) ==
    [p \in DOMAIN clients \cup {provider} |->
        IF p = provider THEN id ELSE clients[p]]

\* del self._clients[provider] (line 234)
del_client(clients, provider) ==
    [p \in DOMAIN clients \ {provider} |-> clients[p]]

\* the call of caller c ends with the given pc and result
HcEnd(c, op, provider, pc, result, n) ==
    [hc_calls EXCEPT ![c] = [op |-> op, provider |-> provider, pc |-> pc,
                             result |-> result, todo |-> {}, closed_n |-> n,
                             seq |-> hc_ops']]

\* the call of caller c suspends in the first aclose() of the keys in todo
HcAwait(c, op, provider, todo) ==
    [hc_calls EXCEPT ![c] = [op |-> op, provider |-> provider, pc |-> "aclose",
                             result |-> 0, todo |-> todo, closed_n |-> 0,
                             seq |-> hc_ops']]

\* The body of a call from the moment it holds the lock to its first
\* suspension or its end: get_client lines 213-220, close_client lines
\* 232-233, close_all lines 225-227.
Enter(c, op, provider) ==
    IF op = "get_client"
    THEN LET create == must_create(_clients, provider)
             id == Len(created_for) + 1
             clients2 == IF create THEN set_client(_clients, provider, id)
                         ELSE _clients
         IN  /\ _clients' = clients2
             /\ created_for' = IF create THEN Append(created_for, provider)
                                ELSE created_for
             /\ hc_calls' = HcEnd(c, op, provider, "done", clients2[provider], 0)
             /\ _lock' = 0
             /\ UNCHANGED closed_clients
    ELSE IF op = "close_client"
    THEN IF has_client(_clients, provider)
         THEN IF provider \in DOMAIN _clients
              THEN /\ hc_calls' = HcAwait(c, op, provider, {provider})
                   /\ _lock' = c
                   /\ UNCHANGED <<_clients, created_for, closed_clients>>
              \* self._clients[provider] raises KeyError; "async with"
              \* releases the lock
              ELSE /\ hc_calls' = HcEnd(c, op, provider, "raised", 0, 0)
                   /\ _lock' = 0
                   /\ UNCHANGED <<_clients, created_for, closed_clients>>
         ELSE /\ hc_calls' = HcEnd(c, op, provider, "done", 0, 0)
              /\ _lock' = 0
              /\ UNCHANGED <<_clients, created_for, closed_clients>>
    ELSE IF DOMAIN _clients # {}
         THEN /\ hc_calls' = HcAwait(c, op, provider, DOMAIN _clients)
              /\ _lock' = c
              /\ UNCHANGED <<_clients, created_for, closed_clients>>
         \* no client: the loop body never runs, clear() of an empty dict
         ELSE /\ hc_calls' = HcEnd(c, op, provider, "done", 0, 0)
              /\ _lock' = 0
              /\ _clients' = EmptyFn
              /\ UNCHANGED <<created_for, closed_clients>>

\* A call begins.  asyncio.Lock.acquire returns at once when the lock is free
\* and nobody waits for it; otherwise the caller joins the waiters.
HcCall(c, op, provider) ==
    /\ hc_calls[c].pc \in {"idle", "done", "raised"}
    /\ hc_ops < MaxHcOps
    /\ hc_ops' = hc_ops + 1
    /\ IF _lock = 0 /\ _waiters = <<>>
       THEN Enter(c, op, provider) /\ UNCHANGED _waiters
       ELSE /\ hc_calls' = [hc_calls EXCEPT ![c] =
                   [op |-> op, provider |-> provider, pc |-> "waiting",
                    result |-> 0, todo |-> {}, closed_n |-> 0, seq |-> hc_ops']]
            /\ _waiters' = Append(_waiters, c)
            /\ UNCHANGED <<_clients, _lock, created_for, closed_clients>>

get_client(c, provider) == HcCall(c, "get_client", provider)
close_client(c, provider) == HcCall(c, "close_client", provider)
close_all(c) == HcCall(c, "close_all", "none")

\* The lock was released: the first waiter holds it and runs its body.
lock_acquired(c) ==
    /\ _lock = 0
    /\ _waiters # <<>>
    /\ c = Head(_waiters)
    /\ _waiters' = Tail(_waiters)
    /\ UNCHANGED hc_ops
    /\ Enter(c, hc_calls[c].op, hc_calls[c].provider)

\* "await client.aclose()" of a close_client or close_all call returns: the
\* client is closed; the call goes on to the next client of the loop (dict
\* order is the order of creation) or removes the entries (lines 227, 234)
\* and leaves the lock.
aclose_done(c) ==
    LET call == hc_calls[c]
        p == CHOOSE q \in call.todo :
                 \A r \in call.todo : _clients[q] <= _clients[r]
        rest == call.todo \ {p}
    IN  /\ call.pc = "aclose"
        /\ closed_clients' = closed_clients \cup {_clients[p]}
        /\ IF rest # {}
           THEN /\ hc_calls' = [hc_calls EXCEPT ![c].todo = rest,
                                                 ![c].closed_n = @ + 1]
                /\ UNCHANGED <<_clients, _lock>>
           ELSE /\ hc_calls' = [hc_calls EXCEPT ![c].todo = {},
                                                 ![c].closed_n = @ + 1,
                                                 ![c].pc = "done"]
                /\ _clients' = IF call.op = "close_client"
                               THEN del_client(_clients, p) ELSE EmptyFn
                /\ _lock' = 0
        /\ UNCHANGED <<_waiters, created_for, hc_ops>>

NextHttpClients ==
    \/ \E c \in HcCallers, p \in HcKeys : get_client(c, p) /\ UNCHANGED not_hc
    \/ \E c \in HcCallers, p \in HcKeys : close_client(c, p) /\ UNCHANGED not_hc
    \/ \E c \in HcCallers : close_all(c) /\ UNCHANGED not_hc
    \/ \E c \in HcCallers : lock_acquired(c) /\ UNCHANGED not_hc
    \/ \E c \in HcCallers : aclose_done(c) /\ UNCHANGED not_hc

SpecHttpClients == Init /\ [][NextHttpClients]_vars

\* ------------------------------------------------------- tile arithmetic
\* Python's int() of the quotient a / b (b > 0): truncation towards zero
int_div_up(a, b) == (a + b - 1) \div b
int_div(a, b) == IF a >= 0 THEN a \div b ELSE 0 - ((0 - a) \div b)

\* coords_to_tile lines 178-180: max(0, min(int(n) - 1, v))
clamp(v, n) ==
    LET m == IF n - 1 < v THEN n - 1 ELSE v
    IN  IF m < 0 THEN 0 ELSE m

\* TileProvider.coords_to_tile (lines 162-182)
coords_to_tile(lon, lat, zoom) ==
    LET n == 2 ^ zoom
        x == int_div(lon * n, World)
        y == int_div((World - lat) * n, World)
    IN  <<clamp(x, n), clamp(y, n)>>

\* TileProvider.tile_to_bounds (lines 110-135):
\* (min_lon, min_lat, max_lon, max_lat)
tile_to_bounds(x, y, zoom) ==
    LET n == 2 ^ zoom
        lon1 == (x * World) \div n
        lat1 == World - (y * World) \div n
        lon2 == ((x + 1) * World) \div n
        lat2 == World - ((y + 1) * World) \div n
    IN  <<lon1, lat2, lon2, lat1>>

\* TileProvider.bounds_to_tiles (lines 137-160), as the set of the (x, y) of
\* the list it returns
tiles_in_bounds(min_lon, min_lat, max_lon, max_lat, zoom) ==
    LET sw == coords_to_tile(min_lon, min_lat, zoom)
        ne == coords_to_tile(max_lon, max_lat, zoom)
        min_x == sw[1]
        max_y == sw[2]
        max_x == ne[1]
        min_y == ne[2]
    IN  {<<x, y>> : x \in min_x..max_x, y \in min_y..max_y}

\* tile_to_bounds applied to the tile coords_to_tile returns for a point
point_round_trip(lon, lat, zoom) ==
    LET t == coords_to_tile(lon, lat, zoom)
    IN  geo' = [NoGeo EXCEPT !.op = "point", !.lon = lon, !.lat = lat,
                             !.zoom = zoom, !.tile = t,
                             !.bounds = tile_to_bounds(t[1], t[2], zoom)]

\* bounds_to_tiles applied to the bounds tile_to_bounds returns for a tile
tile_round_trip(x, y, zoom) ==
    LET b == tile_to_bounds(x, y, zoom)
    IN  geo' = [NoGeo EXCEPT !.op = "tile", !.zoom = zoom, !.tile = <<x, y>>,
                             !.bounds = b,
                             !.tiles = tiles_in_bounds(b[1], b[2], b[3], b[4], zoom)]

\* what coords_to_tile raises (lines 174-176), "" when it returns: int() of
\* an infinity is an OverflowError and of a NaN a ValueError; x is converted
\* before the latitude is looked at; math.tan of an infinity is a
\* ValueError, and a NaN latitude reaches int() as a NaN
coords_to_tile_raises(lon, lat) ==
    IF lon.cls = "inf" THEN "OverflowError"
    ELSE IF lon.cls = "nan" THEN "ValueError"
    ELSE IF lat.cls # "finite" THEN "ValueError"
    ELSE ""

\* one call of coords_to_tile with floats of any kind
coords_to_tile_call(lon, lat, zoom) ==
    LET err == coords_to_tile_raises(lon, lat)
    IN  geo' = [NoGeo EXCEPT !.op = "coords", !.lon = lon.v, !.lat = lat.v,
                             !.zoom = zoom, !.error = err,
                             !.tile = IF err = ""
                                      THEN coords_to_tile(lon.v, lat.v, zoom)
                                      ELSE <<>>]

NextGeodesy ==
    \/ \E lon \in GeoPoints, lat \in GeoPoints, zoom \in Zooms :
          point_round_trip(lon, lat, zoom) /\ UNCHANGED not_ge
    \/ \E lon \in GeoFloats, lat \in GeoFloats, zoom \in Zooms :
          coords_to_tile_call(lon, lat, zoom) /\ UNCHANGED not_ge
    \/ \E zoom \in Zooms :
          \E x \in 0..(2 ^ zoom - 1), y \in 0..(2 ^ zoom - 1) :
              tile_round_trip(x, y, zoom) /\ UNCHANGED not_ge

SpecGeodesy == Init /\ [][NextGeodesy]_vars

\* ------------------------------------------------- maintenance operations
\* Two regions created by create_region: region 1 lies inside tile (0, 0) of
\* zoom 1 and spans four tiles of zoom 2, region 2 lies inside tile (0, 0) of
\* every zoom.
MtRegionIds == {1, 2}
MtRegions ==
    (1 :> [min_lon |-> 1, min_lat |-> World \div 2 + 1,
           max_lon |-> World \div 2 - 1, max_lat |-> World - 1,
           target_zoom |-> 1])
    @@ (2 :> [min_lon |-> 0, min_lat |-> World - 1,
              max_lon |-> 1, max_lat |-> World,
              target_zoom |-> 2])

\* The rows a download leaves behind: READY with the file path of its key
\* and the date of the download (_download_tile lines 152-163), or ERROR
\* with neither (lines 165-168).
MtKeys == {Key(NAIP, 1, <<0, 0>>), Key(NAIP, 2, <<1, 0>>)}
MtDates == {1, 2}
path_of(k) == get_storage_path(k[1], k[2], <<k[3], k[4]>>)
ReadyRow(k, rid, d) ==
    [key |-> k, region_id |-> rid, status |-> READY, file_path |-> path_of(k),
     download_date |-> d, error_message |-> NoMessage]
ErrorRow(k, rid) ==
    [key |-> k, region_id |-> rid, status |-> ERROR, file_path |-> None,
     download_date |-> 0, error_message |-> MsgHttp]
RowChoices ==
    {ReadyRow(k, rid, d) : k \in MtKeys, rid \in MtRegionIds, d \in MtDates}
    \cup {ErrorRow(k, rid) : k \in MtKeys, rid \in MtRegionIds}

\* the tables of up to MaxRows rows; the rows after the second are of the
\* second key
MtTables ==
    UNION {{t \in [1..n -> RowChoices] :
               \A i \in 3..n : t[i].key = Key(NAIP, 2, <<1, 0>>)} :
           n \in 0..MaxRows}

\* the READY rows associated with region rid
ready_count(T, rid) ==
    Cardinality({i \in DOMAIN T : T[i].region_id = rid /\ T[i].status = READY})

\* A database of up to MaxRows tiles, whose regions count their READY tiles
\* in downloaded_tiles as the run that downloaded them left it
\* (_download_region_from_provider lines 90-93), and a storage directory in
\* which any of their files may be missing.  create_all (db/base.py line
\* 107) leaves an existing tiles table as it is, so a table made before
\* uq_tile_coords was declared can hold several rows of one key: the rows
\* cleanup_duplicates is there for.
InitMaint ==
    /\ InitServices(MaxTileX, 1)
    /\ mt_tiles \in MtTables
    /\ mt_regions = [r \in MtRegionIds |->
                        [downloaded_tiles |-> ready_count(mt_tiles, r)]
                            @@ MtRegions[r]]
    /\ mt_files \in SUBSET {path_of(k) : k \in MtKeys}
    /\ mt_last = NoMaint

\* "if region_id: query.filter(Tile.region_id == region_id)" (lines 188, 221);
\* 0 stands for None
InScope(row, region_id) == region_id = 0 \/ row.region_id = region_id

\* Path(...).exists()
exists_always(F, path) == TRUE
exists(F, path) == path \in F

\* the operation ends: what it returned or raised
MtDone(op, region_id, result, error) ==
    [op |-> op, region_id |-> region_id, result |-> result, error |-> error,
     again |-> (mt_last.op = op /\ mt_last.region_id = region_id)]

\* TileManager.cleanup_missing_files (lines 218-236)
cleanup_missing_files(region_id) ==
    LET missing ==
            {i \in DOMAIN mt_tiles :
                /\ mt_tiles[i].status = READY
                /\ InScope(mt_tiles[i], region_id)
                /\ mt_tiles[i].file_path # None
                /\ ~exists(mt_files, mt_tiles[i].file_path)}
    IN  /\ mt_tiles' =
               [i \in DOMAIN mt_tiles |->
                   IF i \in missing
                   THEN [mt_tiles[i] EXCEPT !.status = ERROR,
                                            !.error_message = MsgFileNotFound]
                   ELSE mt_tiles[i]]
        /\ mt_last' = MtDone("cleanup_missing_files", region_id,
                             Cardinality(missing), "")
        /\ UNCHANGED <<mt_regions, mt_files>>

\* The row tile_list.sort(key=download_date or datetime.min, reverse=True)
\* puts first (line 206): the latest date, None counting as the earliest;
\* the sort is stable, so among equal dates the first row of the query,
\* which lists the rows by id.
newest_is_oldest(T, g) ==
    CHOOSE i \in g : \A j \in g :
        \/ T[i].download_date < T[j].download_date
        \/ T[i].download_date = T[j].download_date /\ i <= j
newest(T, g) ==
    CHOOSE i \in g : \A j \in g :
        \/ T[i].download_date > T[j].download_date
        \/ T[i].download_date = T[j].download_date /\ i <= j

\* TileManager.cleanup_duplicates (lines 185-216)
cleanup_duplicates(region_id) ==
    LET rows == {i \in DOMAIN mt_tiles : InScope(mt_tiles[i], region_id)}
        coord_map == [k \in {mt_tiles[i].key : i \in rows} |->
                         {i \in rows : mt_tiles[i].key = k}]
        removed == UNION {coord_map[k] \ {newest(mt_tiles, coord_map[k])} :
                              k \in DOMAIN coord_map}
        unlinked == {mt_tiles[i].file_path : i \in removed} \ {None}
    IN  /\ mt_tiles' = [i \in DOMAIN mt_tiles \ removed |-> mt_tiles[i]]
        /\ mt_files' = mt_files \ unlinked
        /\ mt_last' = MtDone("cleanup_duplicates", region_id,
                             Cardinality(removed), "")
        /\ UNCHANGED mt_regions

\* list(missing)[:20] (line 273)
missing_coords(missing) ==
    IF Cardinality(missing) <= MissingCoordsLimit THEN missing
    ELSE CHOOSE S \in SUBSET missing : Cardinality(S) = MissingCoordsLimit

\* TileManager.verify_coverage (lines 238-274)
verify_coverage(region_id) ==
    /\ UNCHANGED <<mt_regions, mt_tiles, mt_files>>
    /\ IF region_id \notin DOMAIN mt_regions
       THEN mt_last' = MtDone("verify_coverage", region_id, 0, "ValueError")
       ELSE LET region == mt_regions[region_id]
                ready == {i \in DOMAIN mt_tiles :
                             /\ mt_tiles[i].region_id = region_id
                             /\ mt_tiles[i].status = READY}
                zoom == resolve_zoom(0, region)
                expected_tiles ==
                    tiles_in_bounds(region.min_lon, region.min_lat,
                                    region.max_lon, region.max_lat, zoom)
                actual_tiles ==
                    {<<mt_tiles[i].key[3], mt_tiles[i].key[4]>> : i \in ready}
                missing == expected_tiles \ actual_tiles
                extra == actual_tiles \ expected_tiles
            IN  mt_last' = MtDone("verify_coverage", region_id,
                    [expected_tiles |-> Cardinality(expected_tiles),
                     actual_tiles |-> Cardinality(actual_tiles),
                     missing_count |-> Cardinality(missing),
                     extra_count |-> Cardinality(extra),
                     missing_coords |-> missing_coords(missing)], "")

\* delete_region (regions.py lines 139-152).  Region.tiles (models.py line
\* 107) declares no delete cascade, so the flush of db.delete(region) sets
\* region_id of the region's tiles to NULL and deletes the region row only.
delete_region(region_id) ==
    /\ UNCHANGED mt_files
    /\ IF region_id \notin DOMAIN mt_regions
       THEN /\ mt_last' = MtDone("delete_region", region_id, 0, "HTTPException 404")
            /\ UNCHANGED <<mt_regions, mt_tiles>>
       ELSE /\ mt_regions' = [r \in DOMAIN mt_regions \ {region_id} |->
                                 mt_regions[r]]
            /\ mt_tiles' = [i \in DOMAIN mt_tiles |->
                               IF mt_tiles[i].region_id = region_id
                               THEN [mt_tiles[i] EXCEPT !.region_id = 0]
                               ELSE mt_tiles[i]]
            /\ mt_last' = MtDone("delete_region", region_id, 0, "")

NextMaint ==
    \/ \E rid \in {0} \cup MtRegionIds :
          cleanup_missing_files(rid) /\ UNCHANGED not_mt
    \/ \E rid \in {0} \cup MtRegionIds :
          cleanup_duplicates(rid) /\ UNCHANGED not_mt
    \/ \E rid \in MtRegionIds : verify_coverage(rid) /\ UNCHANGED not_mt

SpecMaint == InitMaint /\ [][NextMaint]_vars

\* the region routes on the same databases
NextRegions ==
    \/ \E rid \in MtRegionIds : delete_region(rid) /\ UNCHANGED not_mt
    \/ \E rid \in MtRegionIds : verify_coverage(rid) /\ UNCHANGED not_mt

SpecRegions == InitMaint /\ [][NextRegions]_vars

\* ------------------------------------------------------ comparison routes
\* the filter of the "existing" query (compare.py lines 68-71 and 182-185)
is_pair_ordered(row, a, b) == row.tile_a_id = a /\ row.tile_b_id = b
is_pair(row, a, b) ==
    \/ row.tile_a_id = a /\ row.tile_b_id = b
    \/ row.tile_a_id = b /\ row.tile_b_id = a

\* query(TileComparison).filter(...).first(): the id of the first row of
\* the pair, 0 when there is none
existing_of(C, a, b) ==
    IF \E i \in 1..Len(C) : is_pair(C[i], a, b)
    THEN CHOOSE i \in 1..Len(C) :
             /\ is_pair(C[i], a, b)
             /\ \A j \in 1..(i - 1) : ~is_pair(C[j], a, b)
    ELSE 0

CmResponse(op, a, b, code, body, computed) ==
    [op |-> op, a |-> a, b |-> b, code |-> code, body |-> body,
     computed |-> computed]

\* compare_tiles (lines 48-105)
compare_tiles(a, b, result) ==
    LET existing == existing_of(tile_comparisons, a, b)
        row == [tile_a_id |-> a, tile_b_id |-> b, result |-> result]
    IN  IF a \notin CmTileIds \/ b \notin CmTileIds
        THEN /\ cm_last' = CmResponse("compare_tiles", a, b, 404, <<>>, 0)
             /\ UNCHANGED tile_comparisons
        ELSE IF CmStatus(a) # READY \/ CmStatus(b) # READY
        THEN /\ cm_last' = CmResponse("compare_tiles", a, b, 400, <<>>, 0)
             /\ UNCHANGED tile_comparisons
        ELSE IF existing # 0
        THEN /\ cm_last' = CmResponse("compare_tiles", a, b, 200,
                                      <<existing, tile_comparisons[existing]>>, 0)
             /\ UNCHANGED tile_comparisons
        ELSE /\ tile_comparisons' = Append(tile_comparisons, row)
             /\ cm_last' = CmResponse("compare_tiles", a, b, 200,
                                      <<Len(tile_comparisons) + 1, row>>, 1)

\* The loop of compare_at_location (lines 175-205) over the pairs of the
\* tiles found, in list order: the rows of the table after it and the number
\* of compare() calls.
RECURSIVE compare_pairs(_, _, _, _)
compare_pairs(C, pairs, result, n) ==
    IF pairs = <<>> THEN <<C, n>>
    ELSE LET a == Head(pairs)[1]
             b == Head(pairs)[2]
         IN  IF existing_of(C, a, b) # 0
             THEN compare_pairs(C, Tail(pairs), result, n)
             ELSE compare_pairs(
                      Append(C, [tile_a_id |-> a, tile_b_id |-> b,
                                 result |-> result]),
                      Tail(pairs), result, n + 1)

\* the pairs (tiles[i], tiles[j]), i < j, of the READY tiles by id
RECURSIVE pairs_from(_, _)
pairs_from(a, b) ==
    IF a >= MaxCmTiles - 1 THEN <<>>
    ELSE IF b > MaxCmTiles - 1 THEN pairs_from(a + 1, a + 2)
    ELSE <<(<<a, b>>)>> \o pairs_from(a, b + 1)

\* compare_at_location (lines 151-222)
compare_at_location(place, result) ==
    LET tiles_found == IF place = "here"
                       THEN {id \in CmTileIds : CmStatus(id) = READY} ELSE {}
        done == compare_pairs(tile_comparisons, pairs_from(1, 2), result, 0)
    IN  IF Cardinality(tiles_found) < 2
        THEN /\ cm_last' = CmResponse("compare_at_location", 0, 0, 400, <<>>, 0)
             /\ UNCHANGED tile_comparisons
        ELSE /\ tile_comparisons' = done[1]
             /\ cm_last' = CmResponse("compare_at_location", 0, 0, 200,
                                      <<>>, done[2])

NextCompare ==
    \/ \E a \in CmRequestIds, b \in CmRequestIds, result \in CmResults :
          compare_tiles(a, b, result) /\ UNCHANGED not_cm
    \/ \E place \in CmPlaces, result \in CmResults :
          compare_at_location(place, result) /\ UNCHANGED not_cm

SpecCompare == Init /\ [][NextCompare]_vars

\* ----------------------------------------------------------------- claims
RunRegion == run_args.region_id
RunCoords == bounds_to_tiles(regions[RunRegion])
ProviderKeys(p) == {Key(p, run_args.zoom, c) : c \in RunCoords}
RequiredKeys ==
    UNION {ProviderKeys(run_args.provider_names[i]) :
               i \in 1..Len(run_args.provider_names)}
WithStatus(T, keys, st) == {k \in keys \cap DOMAIN T : T[k].status = st}
IsReady(T, k) == k \in DOMAIN T /\ T[k].status = READY
Fetching == {c \in DOMAIN task_pc : task_pc[c] = "fetching"}

\* C1: get_or_fetch calls for a key made while a fetch for that key is in
\* flight all wait on the future of that fetch and start no other; every key
\* has at most one fetch in flight; fetch_func is invoked at most once per
\* future and exactly once when the future is resolved; and every caller gets
\* the value (or the exception) of the one invocation it waited on, so the
\* callers that overlapped one fetch all get the same result.
InFlight(key) == {f \in DOMAIN futures : futures[f].key = key /\ FetchRunning(f)}
JoinsInFlight ==
    \A c \in Callers :
        (callers[c].pc = "idle" /\ callers'[c].pc = "awaiting"
            /\ InFlight(callers'[c].key) # {})
        => /\ callers'[c].fut \in InFlight(callers'[c].key)
           /\ futures' = futures
           /\ fetch_invocations' = fetch_invocations
OneFetchPerGroup ==
    /\ \A key \in DedupKeys : Cardinality(InFlight(key)) <= 1
    /\ \A f \in DOMAIN futures :
          /\ futures[f].invoked <= 1
          /\ Done(f) => futures[f].invoked = 1
    /\ \A c \in Callers :
          callers[c].pc # "idle"
          => /\ futures[callers[c].fut].key = callers[c].key
             /\ callers[c].pc \in {"returned", "raised"}
                => /\ callers[c].result = futures[callers[c].fut].value
                   /\ (callers[c].pc = "returned") =
                         (futures[callers[c].fut].state = "result")
    /\ \A c, d \in Callers :
          (/\ callers[c].pc \in {"returned", "raised"}
           /\ callers[d].pc \in {"returned", "raised"}
           /\ callers[c].fut = callers[d].fut)
          => callers[c].result = callers[d].result /\ callers[c].pc = callers[d].pc
C1_SingleFetch == [][JoinsInFlight]_vars /\ []OneFetchPerGroup
\* all the callers overlapped one fetch and have returned with its result
C1_Witness ==
    /\ \A c \in Callers : callers[c].pc = "returned" /\ callers[c].fut = 1
    /\ fetch_invocations = 1

\* C2: in calls that do not overlap, a step of download_region changes the
\* status of a tile row only along PENDING -> DOWNLOADING, DOWNLOADING -> READY,
\* DOWNLOADING -> ERROR and ERROR -> DOWNLOADING; the status of a READY row is
\* never changed, a row is never removed, and a row the call inserts has one
\* of the statuses those transitions lead to.
AllowedTransitions ==
    {<<PENDING, DOWNLOADING>>, <<DOWNLOADING, READY>>, <<DOWNLOADING, ERROR>>,
     <<ERROR, DOWNLOADING>>}
StatusStepAllowed(old, new) ==
    /\ DOMAIN old \subseteq DOMAIN new
    /\ \A k \in DOMAIN new :
          IF k \in DOMAIN old
          THEN \/ new[k].status = old[k].status
               \/ <<old[k].status, new[k].status>> \in AllowedTransitions
          ELSE new[k].status \in {t[2] : t \in AllowedTransitions}
C3_IdempotentRerun ==
    (/\ run_pc # "idle"
     /\ prev_run.pc = "returned"
     /\ prev_run.same_args
     /\ \A k \in RequiredKeys : IsReady(start_tiles, k))
    => /\ get_tile_calls = EmptyFn
       /\ tiles = start_tiles
       /\ run_pc = "returned" =>
             regions[RunRegion].downloaded_tiles = start_downloaded
C3_Witness ==
    /\ run_pc = "returned"
    /\ prev_run.pc = "returned"
    /\ prev_run.same_args
    /\ run_args.provider_names # <<>>
    /\ \A k \in RequiredKeys : IsReady(start_tiles, k)
    /\ Cardinality(touched) = Cardinality(RunCoords) * Len(run_args.provider_names)

\* C4: a run over the n tiles of one provider in which k get_tile calls fail
\* returns with n-k tiles READY, k tiles ERROR and downloaded_tiles = n-k.
C4_PartialFailure ==
    (run_pc = "returned" /\ Len(run_args.provider_names) = 1)
    => LET n == Cardinality(RunCoords)
           k == failed_fetches
       IN  /\ Cardinality(WithStatus(tiles, RequiredKeys, READY)) = n - k
           /\ Cardinality(WithStatus(tiles, RequiredKeys, ERROR)) = k
           /\ regions[RunRegion].downloaded_tiles = n - k
C4_Witness ==
    /\ run_pc = "returned"
    /\ Len(run_args.provider_names) = 1
    /\ Cardinality(DOMAIN get_tile_calls) = Cardinality(RunCoords)
    /\ failed_fetches = 1
    /\ Cardinality(RunCoords) = MaxTileX + 1

\* C5: when a call has returned, downloaded_tiles of its region is the
\* number of READY tile rows of that region.
C5_DownloadedEqualsReady ==
    run_pc = "returned"
    => regions[RunRegion].downloaded_tiles =
          Cardinality({k \in DOMAIN tiles :
                          /\ tiles[k].region_id = RunRegion
                          /\ tiles[k].status = READY})

\* C6: at most max_concurrent_downloads tiles of a provider run are inside
\* _download_tile (suspended in their fetch) at any moment.
C6_BoundedConcurrency ==
    /\ Cardinality(Fetching) <= max_concurrent_downloads
    /\ semaphore >= 0
    /\ RunActive => semaphore + Cardinality(Fetching) = max_concurrent_downloads
C6_Witness ==
    /\ Cardinality(Fetching) = max_concurrent_downloads
    /\ \E c \in DOMAIN task_pc : task_pc[c] = "waiting"

\* C7: when the gather of a provider run has every task ended, every tile of
\* the run other than those whose own commit was rejected has a row that is
\* READY or ERROR.
C7_SiblingIsolation ==
    (RunActive /\ gather_ready(task_pc))
    => \A c \in DOMAIN task_pc :
          CurKey(c) \notin rejected_tiles
          => /\ CurKey(c) \in DOMAIN tiles
             /\ tiles[CurKey(c)].status \in {READY, ERROR}

KilledStepKeeps ==
    (run_pc = "gather" /\ run_pc' = "crashed")
    => \A k \in DOMAIN tiles :
          (/\ tiles[k].status \in {READY, ERROR}
           /\ \A c \in DOMAIN task_pc :
                 <<run_pidx, c>> \in touched' \ touched => k # CurKey(c))
          => k \in DOMAIN tiles' /\ tiles'[k] = tiles[k]
ResumeFetchesNotReady ==
    (run_pc = "returned" /\ prev_run.pc = "crashed")
    => DOMAIN get_tile_calls =
          {k \in RequiredKeys : ~IsReady(start_tiles, k)}
C9_CrashResume == [][KilledStepKeeps]_vars /\ []ResumeFetchesNotReady
C9_Witness ==
    /\ run_pc = "returned"
    /\ prev_run.pc = "crashed"
    /\ \E k \in DOMAIN get_tile_calls :
          k \in DOMAIN start_tiles /\ start_tiles[k].status = DOWNLOADING
    /\ \E k \in RequiredKeys : IsReady(start_tiles, k)

\* C10: the call moves on to provider N+1 only when every tile of provider N
\* is READY or ERROR, and no tile of a provider is taken up before the call
\* has moved on to that provider.
MovesToNextProvider ==
    /\ run_pc = "gather"
    /\ run_pc' = "gather"
    /\ run_pidx' # run_pidx
C10_ProvidersSequential ==
    /\ [][MovesToNextProvider =>
             \A k \in ProviderKeys(CurProvider) :
                 k \in DOMAIN tiles /\ tiles[k].status \in {READY, ERROR}]_vars
    /\ [](\A t \in touched : t[1] <= run_pidx)
    /\ [][\A t \in touched' \ touched : t[1] = run_pidx /\ run_pidx' = run_pidx]_vars
C10_Witness ==
    /\ run_pidx = 2
    /\ \E t \in touched : t[1] = 2
    /\ \E k \in ProviderKeys(run_args.provider_names[1]) :
          k \in DOMAIN tiles /\ tiles[k].status = ERROR

\* C11: a step of a download_region call turns is_complete of the region to
\* TRUE only as the call returns, when _download_tile has run for every tile
\* of every entry of provider_names; a call that ends by raising or by being
\* killed leaves is_complete as it was (FALSE in a first call).
SetsComplete ==
    \E rid \in DOMAIN regions :
        ~regions[rid].is_complete /\ regions'[rid].is_complete
EveryProviderProcessed ==
    \A i \in 1..Len(run_args'.provider_names) :
        \A c \in bounds_to_tiles(regions[run_args'.region_id]) :
            <<i, c>> \in touched'
C11_CompleteAfterAllProviders ==
    /\ [][SetsComplete => (run_pc' = "returned" /\ EveryProviderProcessed)]_vars
    /\ [][(run_pc' \in {"raised", "crashed"})
            => \A rid \in DOMAIN regions :
                  regions'[rid].is_complete = regions[rid].is_complete]_vars
    /\ [](run_pc \in {"idle", "gather", "raised", "crashed"}
            => \A rid \in DOMAIN regions : ~regions[rid].is_complete)
C11_Witness ==
    /\ run_pc = "returned"
    /\ regions[run_args.region_id].is_complete
    /\ Len(run_args.provider_names) = MaxProviders
    /\ \E t \in touched : t[1] = MaxProviders

\* C12: a call that has returned has called get_tile for every required tile
\* that was ERROR when it started, and at no moment of a call has get_tile
\* been called more than once for one (provider, zoom, x, y).
C12_RetryOncePerRun ==
    /\ run_pc = "returned"
       => \A k \in RequiredKeys :
             (k \in DOMAIN start_tiles /\ start_tiles[k].status = ERROR)
             => k \in DOMAIN get_tile_calls
    /\ \A k \in DOMAIN get_tile_calls : get_tile_calls[k] <= 1

\* C13: in the step in which a download run turns a tile READY, the file at
\* the tile's file_path exists and the checksum recorded with the tile, when
\* there is one, is the digest of the bytes of that file.
BecomesReady(k) ==
    /\ k \in DOMAIN tiles'
    /\ tiles'[k].status = READY
    /\ k \in DOMAIN tiles => tiles[k].status # READY
ReadyHasFile ==
    \A k \in DOMAIN tiles' :
        BecomesReady(k)
        => /\ tiles'[k].file_path \in DOMAIN files'
           /\ tiles'[k].checksum_sha256 # NoChecksum
              => tiles'[k].checksum_sha256 = Sha256(files'[tiles'[k].file_path])
C13_ReadyHasFile == [][ReadyHasFile]_vars
\* a READY tile whose file was fetched again after a first fetch whose commit
\* was rejected, with other bytes, and whose checksum is that of the new bytes
C13_Witness ==
    \E k \in DOMAIN tiles :
        /\ tiles[k].status = READY
        /\ tiles[k].file_path \in DOMAIN files
        /\ files[tiles[k].file_path] = "image-b"
        /\ tiles[k].checksum_sha256 = Sha256("image-b")
        /\ k \in DOMAIN start_tiles
        /\ start_tiles[k].status = DOWNLOADING

\* C14: whatever the overlap of the runs, the tiles table never holds two rows
\* for one (provider, zoom, tile_x, tile_y).
C14_OneRowPerKey ==
    \A a, b \in tile_table : a.key = b.key => a = b
\* two runs found no row for a tile, one inserted it and the INSERT of the
\* other was rejected
C14_Witness ==
    \E r, q \in OvRuns :
        /\ ov_pc[r] = "raised"
        /\ ov_pc[q] \in {"fetching", "done"}
        /\ ov_key[q] = ov_key[r]
        /\ Cardinality(RowsOf(tile_table, ov_key[r])) = 1

\* C15: the runs of one process never have two get_tile requests in flight
\* for one (provider, zoom, x, y).
InFlightFetches(proc, key) ==
    {r \in OvRuns : /\ process_of(r) = proc
                    /\ ov_pc[r] = "fetching"
                    /\ ov_key[r] = key}
C15_OneFetchInFlight ==
    \A r \in OvRuns, key \in OvKeys :
        Cardinality(InFlightFetches(process_of(r), key)) <= 1

\* C16: when the database accepts every commit, no download_region call ends
\* by raising, whatever the region id and the names of the list.
C16_NeverRaises == ~(run_pc = "raised" /\ commit_failures = 0)

\* C17: the sizes of the entries the cache retains add up to at most
\* max_size_bytes, after any calls of put, get and clear.
RECURSIVE RetainedSize(_)
RetainedSize(C) == IF C = <<>> THEN 0 ELSE Head(C).size + RetainedSize(Tail(C))
C17_SizeWithinLimit ==
    /\ RetainedSize(_cache) <= max_size_bytes
    /\ _current_size <= max_size_bytes

\* C18: the entries a put evicts are the least recently used ones: each was
\* last got (hit) or put before every entry the put retains, and the most
\* recently used of them had to go for the new entry to fit.
PutStep == last_op'.op = "put" /\ cache_ops' = cache_ops + 1
SizeOfKeys(C, keys) ==
    RetainedSize(SelectSeq(C, LAMBDA e : e.key \in keys))
EvictsLeastRecentlyUsed ==
    PutStep =>
    LET k == last_op'.key
        gone == (CachedKeys(_cache) \ {k}) \ CachedKeys(_cache')
        kept == CachedKeys(_cache') \ {k}
        new == _cache'[Len(_cache')]
    IN  /\ kept \subseteq CachedKeys(_cache)
        /\ new.key = k
        /\ \A e \in gone, r \in kept : last_access[e] < last_access[r]
        /\ \A e \in gone :
              (\A d \in gone : last_access[d] <= last_access[e])
              => \/ SizeOfKeys(_cache, kept \cup {e}) + new.size > max_size_bytes
                 \/ Cardinality(kept) + 1 >= max_entries
C18_EvictsLRU == [][EvictsLeastRecentlyUsed]_vars
\* a put has evicted an entry and retained one that a get had moved behind it
C18_Witness ==
    /\ last_op.op = "put"
    /\ last_op.evicted # {}
    /\ \E i \in 1..Len(_cache) :
          /\ _cache[i].key # last_op.key
          /\ _cache[i].hits > 0
          /\ \E e \in last_op.evicted : last_access[e] > 1

\* C19: a get of an entry younger than the TTL returns its bytes; a get of an
\* entry older than the TTL returns None, adds one to the misses and removes
\* the entry; a get of a key with no entry misses and leaves the cache as it
\* is; a get removes no other entry, and the passing of time removes none.
GetStep == last_op'.op = "get" /\ cache_ops' = cache_ops + 1
GetHonoursTTL ==
    GetStep =>
    LET k == last_op'.key
        present == k \in CachedKeys(_cache)
        age == now - EntryOf(_cache, k).created_at
    IN  /\ (present /\ age < ttl)
           => /\ last_op'.result = EntryOf(_cache, k).data
              /\ k \in CachedKeys(_cache')
              /\ _hits' = _hits + 1 /\ _misses' = _misses
        /\ (present /\ age > ttl)
           => /\ last_op'.result = None
              /\ k \notin CachedKeys(_cache')
              /\ _misses' = _misses + 1 /\ _hits' = _hits
        /\ ~present
           => /\ last_op'.result = None
              /\ _cache' = _cache
              /\ _misses' = _misses + 1 /\ _hits' = _hits
        /\ CachedKeys(_cache) \ {k} \subseteq CachedKeys(_cache')
C19_TTL == [][GetHonoursTTL]_vars /\ [][now' # now => _cache' = _cache]_vars
\* put, then time beyond the TTL, then a get of the key: a miss, entry removed
C19_Witness ==
    /\ cache_ops = 2
    /\ last_op.op = "get"
    /\ last_op.result = None
    /\ last_access[last_op.key] = 1
    /\ now > ttl
    /\ _misses = 1
    /\ _cache = <<>>

\* C20: when fetch_func raises, the key leaves _pending in that step; every
\* caller that waited on that fetch ends by raising, all with the error of
\* that one invocation; and a get_or_fetch call made for the key afterwards
\* waits on a new future, for which fetch_func is invoked again.
FetchFails(f) ==
    /\ f \in DOMAIN futures
    /\ futures[f].state = "fetching"
    /\ futures'[f].state = "exception"
FailureLeavesPending ==
    \A f \in 1..MaxFetches : FetchFails(f) => futures[f].key \notin DOMAIN _pending'
CallsAfterFailureRetry ==
    \A c \in Callers :
        (callers[c].pc = "idle" /\ callers'[c].pc = "awaiting")
        => /\ futures'[callers'[c].fut].state \in {"created", "fetching"}
           /\ (\E f \in DOMAIN futures :
                  futures[f].key = callers'[c].key /\ futures[f].state = "exception")
              /\ InFlight(callers'[c].key) = {}
              => /\ callers'[c].fut = Len(futures) + 1
                 /\ futures'[callers'[c].fut].invoked = 0
WaitersShareFailure ==
    \A c \in Callers :
        (callers[c].pc \in {"returned", "raised"}
            /\ futures[callers[c].fut].state = "exception")
        => /\ callers[c].pc = "raised"
           /\ callers[c].result = futures[callers[c].fut].value
           /\ futures[callers[c].fut].invoked = 1
C20_FailureNotCached ==
    /\ [][FailureLeavesPending /\ CallsAfterFailureRetry]_vars
    /\ []WaitersShareFailure
\* two callers raised with the error of the first fetch of a key, and a third
\* call for the key got the result of a second invocation
C20_Witness ==
    \E c, d, e \in Callers :
        /\ c # d
        /\ callers[c].pc = "raised" /\ callers[d].pc = "raised"
        /\ callers[c].fut = 1 /\ callers[d].fut = 1
        /\ callers[e].key = callers[c].key
        /\ callers[e].fut = 2
        /\ callers[e].pc = "returned"
        /\ callers[e].result = 2

\* the clients created for key k that have not been closed
LiveOf(created, closed, k) ==
    {id \in 1..Len(created) : created[id] = k /\ id \notin closed}
LiveClients(k) == LiveOf(created_for, closed_clients, k)
\* the call of caller c returns or raises in this step
HcReturns(c) ==
    /\ hc_calls'[c].pc \in {"done", "raised"}
    /\ hc_calls[c].pc \notin {"done", "raised"} \/ hc_calls'[c].seq # hc_calls[c].seq
\* the call of caller c takes the lock in this step
HcEnters(c) ==
    /\ hc_calls'[c].pc # "waiting"
    /\ \/ hc_calls[c].pc = "waiting"
       \/ hc_calls'[c].seq # hc_calls[c].seq
GetClientReturnsTheLiveOne ==
    \A c \in HcCallers :
        HcReturns(c) /\ hc_calls'[c].op = "get_client" =>
            /\ hc_calls'[c].pc = "done"
            /\ LiveOf(created_for', closed_clients', hc_calls'[c].provider) =
                   {hc_calls'[c].result}

\* C21: whatever the interleaving of the calls, at most one client that has
\* not been closed exists for a provider key, and a get_client call for the
\* key returns that client.
C21_OneClientPerKey ==
    /\ [](\A k \in HcKeys : Cardinality(LiveClients(k)) <= 1)
    /\ [][GetClientReturnsTheLiveOne]_vars

\* two callers hold the same client of a key whose earlier client was closed
C21_Witness ==
    \E c, d \in HcCallers :
        /\ c # d
        /\ hc_calls[c].op = "get_client" /\ hc_calls[c].pc = "done"
        /\ hc_calls[d].op = "get_client" /\ hc_calls[d].pc = "done"
        /\ hc_calls[c].provider = hc_calls[d].provider
        /\ hc_calls[c].result = hc_calls[d].result
        /\ hc_calls[c].result = 2
        /\ created_for = <<hc_calls[c].provider, hc_calls[c].provider>>

NothingToClose(op, provider) ==
    \/ op = "close_client" /\ provider \notin DOMAIN _clients
    \/ op = "close_all" /\ DOMAIN _clients = {}
CloseOfNothingIsNoOp ==
    \A c \in HcCallers :
        HcEnters(c) /\ NothingToClose(hc_calls'[c].op, hc_calls'[c].provider) =>
            /\ hc_calls'[c].pc = "done"
            /\ _clients' = _clients
            /\ closed_clients' = closed_clients
GetClientNeverReturnsClosed ==
    \A c \in HcCallers :
        HcReturns(c) /\ hc_calls'[c].op = "get_client" =>
            /\ hc_calls'[c].result \notin closed_clients'
            /\ hc_calls'[c].provider \in DOMAIN _clients'
            /\ _clients'[hc_calls'[c].provider] = hc_calls'[c].result

\* C22: a close_client call that finds no client under its key and a
\* close_all call that finds no client at all return without raising and
\* leave _clients as it was; the client a get_client call returns has never
\* been closed.
C22_CloseIsNoOp ==
    /\ [][CloseOfNothingIsNoOp]_vars
    /\ [][GetClientNeverReturnsClosed]_vars
    /\ [](\A c \in HcCallers : hc_calls[c].pc # "raised")

\* a key was closed twice in a row, the second close found nothing, and a
\* get_client after it returned a new client
C22_Witness ==
    \E c, d \in HcCallers :
        /\ hc_calls[c].op = "close_client" /\ hc_calls[c].pc = "done"
        /\ hc_calls[c].closed_n = 0
        /\ created_for = <<hc_calls[c].provider, hc_calls[c].provider>>
        /\ closed_clients = {1}
        /\ hc_calls[d].op = "get_client" /\ hc_calls[d].pc = "done"
        /\ hc_calls[d].result = 2
        /\ hc_calls[d].seq > hc_calls[c].seq

\* get_tile is called for key k in this step
GetTileCalled(k) ==
    /\ k \in DOMAIN get_tile_calls'
    /\ k \in DOMAIN get_tile_calls => get_tile_calls'[k] > get_tile_calls[k]
NoKeyConfigured(p) == requires_api_key(p) /\ ~google_maps_api_key
NoKeyGetTile ==
    \A c \in DOMAIN task_pc :
        (/\ RunActive
         /\ NoKeyConfigured(CurProvider)
         /\ GetTileCalled(CurKey(c)))
        => /\ c \in DOMAIN task_pc'
           /\ task_pc'[c] = "done"
           /\ commit_failures' = commit_failures =>
                 /\ task_result'[c] = "false"
                 /\ tiles'[CurKey(c)].status = ERROR
                 /\ tiles'[CurKey(c)].error_message = MsgNoKey

\* C23: the step in which get_tile is called on a provider that requires an
\* API key and has none ends the task without suspending it in an HTTP
\* request (no task of such a provider is ever in one); when the database
\* accepts the commit, the task has returned False, nothing was raised, and
\* the tile row is ERROR with the provider's message.
C23_NoKeyIsError ==
    /\ [][NoKeyGetTile]_vars
    /\ [](RunActive /\ Fetching # {} => ~NoKeyConfigured(CurProvider))

\* a Google tile is ERROR with the message, after one get_tile call, next to
\* a NAIP tile that was fetched
C23_Witness ==
    \E k \in DOMAIN tiles :
        /\ k[1] = GOOGLE
        /\ tiles[k].status = ERROR
        /\ tiles[k].error_message = MsgNoKey
        /\ k \in DOMAIN get_tile_calls /\ get_tile_calls[k] = 1
        /\ \E j \in DOMAIN tiles : j[1] = NAIP /\ tiles[j].status = READY

InGrid(lon, lat) == lon \in 0..World /\ lat \in 0..World
C30_TileRoundTrip ==
    geo.op = "tile" => geo.tiles = {geo.tile}

\* C32: for every zoom and every longitude and latitude, also outside the
\* valid range, coords_to_tile returns without error an (x, y) with
\* 0 <= x <= 2^zoom - 1 and 0 <= y <= 2^zoom - 1.
C32_CoordsToTileClamps ==
    geo.op = "coords" =>
        /\ geo.error = ""
        /\ geo.tile[1] \in 0..(2 ^ geo.zoom - 1)
        /\ geo.tile[2] \in 0..(2 ^ geo.zoom - 1)

\* C40: after any sequence of put, get and clear the byte counter of the
\* cache is the sum of the sizes of the entries it retains, and with
\* max_entries >= 1 it never retains more than max_entries entries.
C40_CounterMatchesEntries ==
    /\ _current_size = RetainedSize(_cache)
    /\ max_entries >= 1 => Len(_cache) <= max_entries

\* a put into a cache filled to both limits, after a hit and a miss, that
\* evicted an entry
C40_Witness ==
    /\ last_op.op = "put"
    /\ last_op.evicted # {}
    /\ Len(_cache) = max_entries
    /\ _current_size = max_size_bytes
    /\ _hits > 0 /\ _misses > 0

\* C33: a tile record first referenced by a download run is created with
\* status PENDING, and moved to DOWNLOADING only afterwards: the step that
\* adds a record to the table adds it in PENDING.
C33_CreatedPending ==
    [][\A k \in DOMAIN tiles' \ DOMAIN tiles : tiles'[k].status = PENDING]_vars

\* C38: in every reachable state a region whose is_complete is true has no
\* tile in DOWNLOADING, also while a later run on the region is fetching.
C38_CompleteHasNoDownloading ==
    \A rid \in DOMAIN regions :
        regions[rid].is_complete =>
            \A k \in DOMAIN tiles :
                tiles[k].region_id = rid => tiles[k].status # DOWNLOADING

\* C39: every tile in READY has an empty error_message, also one that was
\* in ERROR before the run that downloaded it.
C39_ReadyHasNoError ==
    \A k \in DOMAIN tiles :
        tiles[k].status = READY => tiles[k].error_message = NoMessage

\* C34: when download runs that need the same tile overlap, a row one of
\* them has committed READY is not changed by the others: no step of a
\* download run moves a row from READY to DOWNLOADING or ERROR.
C34_ReadyIsFinal ==
    [][\A row \in tile_table :
          row.status = READY =>
              \E after \in tile_table' :
                  after.id = row.id /\ after.status = READY]_vars

\* C35: once the fetch of a future has ended, in whatever way, every caller
\* of get_or_fetch that awaits the future receives its result or its error:
\* the future is resolved, so the caller's await returns or raises; and
\* when no fetch is running the in-flight map is empty.
C35_CallersAreAnswered ==
    /\ \A c \in Callers :
          callers[c].pc = "awaiting" /\ ~FetchRunning(callers[c].fut)
              => Done(callers[c].fut)
    /\ (\A f \in DOMAIN futures : ~FetchRunning(f)) => _pending = EmptyFn

\* C31: with caching enabled and the save path writable, a call of
\* download_tile_with_cache that finds unexpired bytes for the tile in the
\* cache returns success with those bytes and has written them to the save
\* path, and no fetch is invoked; a call that finds none goes through the
\* deduplicator, and when it returns the cache holds the fetched bytes for
\* the key if the fetch succeeded and no entry for the key if it failed.
WcStarts(c) == wc_calls[c].pc = "idle" /\ wc_calls'[c].pc # "idle"
WcFetchEnds(c) == wc_calls[c].pc = "awaiting" /\ wc_calls'[c].pc = "returned"
WriteFailed(c) == wc_calls'[c].error \in {"OSError", "Download error"}
HitIsServed(c) ==
    LET key == wc_calls'[c].key
    IN  WcStarts(c) /\ cache_hit(key) /\ ~WriteFailed(c) =>
            /\ wc_calls'[c].pc = "returned"
            /\ wc_calls'[c].success
            /\ wc_calls'[c].data = EntryOf(_cache, key).data
            /\ key \in DOMAIN saved'
            /\ saved'[key] = EntryOf(_cache, key).data
            /\ futures' = futures
            /\ fetch_invocations' = fetch_invocations
MissIsFetched(c) ==
    LET key == wc_calls'[c].key
    IN  WcStarts(c) /\ ~cache_hit(key) =>
            /\ wc_calls'[c].pc = "awaiting"
            /\ callers'[c].pc = "awaiting"
            /\ callers'[c].key = key
            /\ futures'[callers'[c].fut].key = key
FetchedIsCached(c) ==
    LET key == wc_calls[c].key
        f == callers[c].fut
    IN  WcFetchEnds(c) /\ ~WriteFailed(c) =>
            IF futures[f].state = "result"
            THEN /\ wc_calls'[c].success
                 /\ wc_calls'[c].data = response_content(futures[f].value)
                 /\ key \in CachedKeys(_cache')
                 /\ EntryOf(_cache', key).data = wc_calls'[c].data
            ELSE /\ ~wc_calls'[c].success
                 /\ key \notin CachedKeys(_cache')
C31_CachedDownload ==
    [][\A c \in Callers :
          HitIsServed(c) /\ MissIsFetched(c) /\ FetchedIsCached(c)]_vars

\* the READY rows in the scope of a call whose file is not on storage
MissingRows(rid) ==
    {i \in DOMAIN mt_tiles :
        /\ mt_tiles[i].status = READY
        /\ InScope(mt_tiles[i], rid)
        /\ mt_tiles[i].file_path \notin mt_files}
CleanupMissingFilesPost ==
    mt_last'.op = "cleanup_missing_files" =>
        LET rid == mt_last'.region_id
            gone == MissingRows(rid)
        IN  /\ DOMAIN mt_tiles' = DOMAIN mt_tiles
            /\ \A i \in DOMAIN mt_tiles' :
                  /\ InScope(mt_tiles'[i], rid) /\ mt_tiles'[i].status = READY
                        => mt_tiles'[i].file_path \in mt_files'
                  /\ i \in gone =>
                        /\ mt_tiles'[i].status = ERROR
                        /\ mt_tiles'[i].error_message \notin {NoMessage, ""}
                  /\ i \notin gone => mt_tiles'[i] = mt_tiles[i]
            /\ mt_files' = mt_files
            /\ mt_last'.error = ""
            /\ mt_last'.result = Cardinality(gone)
            /\ mt_last'.again =>
                  mt_tiles' = mt_tiles /\ mt_last'.result = 0

\* C24: a cleanup_missing_files call leaves every READY row of its scope
\* with a file on storage, turns every READY row of its scope whose file was
\* missing to ERROR with a message, leaves every other row and the storage
\* as they were and returns the number of rows it turned; a call that
\* follows a call of the same scope changes nothing and returns 0.
C24_CleanupMissingFiles == [][CleanupMissingFilesPost]_vars

\* the second of two calls for region 1 in a row has returned 0; a row of
\* the region is ERROR with the message, another is READY with its file,
\* and a READY row of the other region has kept its status without a file
C24_Witness ==
    /\ mt_last.op = "cleanup_missing_files"
    /\ mt_last.region_id = 1
    /\ mt_last.again
    /\ mt_last.result = 0
    /\ \E i, j, k \in DOMAIN mt_tiles :
          /\ mt_tiles[i].region_id = 1
          /\ mt_tiles[i].status = ERROR
          /\ mt_tiles[i].error_message = MsgFileNotFound
          /\ mt_tiles[j].region_id = 1
          /\ mt_tiles[j].status = READY
          /\ mt_tiles[j].file_path \in mt_files
          /\ mt_tiles[k].region_id = 2
          /\ mt_tiles[k].status = READY
          /\ mt_tiles[k].file_path \notin mt_files

\* the rows of key k among the rows of set S, before and after the step
RowsOfKey(T, S, k) == {i \in S : T[i].key = k}
\* Of the rows g of one key: when they are several, one is left, unchanged,
\* and none of them has a later download date; a single one is left as it is.
DuplicatesRemoved(g) ==
    IF Cardinality(g) > 1
    THEN \E i \in g :
            /\ g \cap DOMAIN mt_tiles' = {i}
            /\ mt_tiles'[i] = mt_tiles[i]
            /\ \A j \in g : mt_tiles[j].download_date <= mt_tiles[i].download_date
    ELSE \A i \in g : i \in DOMAIN mt_tiles' /\ mt_tiles'[i] = mt_tiles[i]
CleanupDuplicatesAgain ==
    mt_last'.again => mt_tiles' = mt_tiles /\ mt_last'.result = 0

\* C25 as stated: after cleanup_duplicates, of the rows of every key that
\* had several rows in the table one is left, the one downloaded last; the
\* rows of the other keys are untouched; a call that follows a call of the
\* same scope removes nothing.
C25_CleanupDuplicates ==
    [][mt_last'.op = "cleanup_duplicates" =>
          /\ \A k \in MtKeys :
                DuplicatesRemoved(RowsOfKey(mt_tiles, DOMAIN mt_tiles, k))
          /\ CleanupDuplicatesAgain]_vars

\* C25, amended: the same of the rows in the scope of the call (every row,
\* or the rows of the region given); the rows out of scope are untouched.
C25_CleanupDuplicatesInScope ==
    [][mt_last'.op = "cleanup_duplicates" =>
          LET scope == {i \in DOMAIN mt_tiles :
                           InScope(mt_tiles[i], mt_last'.region_id)}
          IN  /\ \A k \in MtKeys :
                    DuplicatesRemoved(RowsOfKey(mt_tiles, scope, k))
              /\ \A i \in DOMAIN mt_tiles \ scope :
                    i \in DOMAIN mt_tiles' /\ mt_tiles'[i] = mt_tiles[i]
              /\ DOMAIN mt_tiles' \subseteq DOMAIN mt_tiles
              /\ mt_last'.result =
                    Cardinality(DOMAIN mt_tiles) - Cardinality(DOMAIN mt_tiles')
              /\ CleanupDuplicatesAgain]_vars

\* a call for region 1 removed the older of two rows of one key and left the
\* row of the other region
C25_Witness ==
    /\ mt_last.op = "cleanup_duplicates"
    /\ mt_last.region_id = 1
    /\ mt_last.result = 1
    /\ DOMAIN mt_tiles = {2, 3}
    /\ mt_tiles[2].region_id = 1
    /\ mt_tiles[2].download_date = 2
    /\ mt_tiles[3].region_id = 2

\* C36: cleanup_duplicates does not delete the file of a row it keeps: a row
\* that is READY with its file on storage before the call and is still in
\* the table after it still has its file, also when a removed duplicate
\* records the same path.
C36_KeptFileSurvives ==
    [][mt_last'.op = "cleanup_duplicates" =>
          \A i \in DOMAIN mt_tiles' :
              /\ mt_tiles[i].status = READY
              /\ mt_tiles[i].file_path # None
              /\ exists(mt_files, mt_tiles[i].file_path)
              => exists(mt_files', mt_tiles[i].file_path)]_vars

\* C37: when cleanup_missing_files or cleanup_duplicates changes or removes
\* READY tiles of a region whose downloaded_tiles was its number of READY
\* tiles, downloaded_tiles is the number of READY tiles of the region
\* afterwards too.
C37_DownloadedTilesFollows ==
    [][mt_last'.op \in {"cleanup_missing_files", "cleanup_duplicates"} =>
          \A r \in DOMAIN mt_regions :
              mt_regions[r].downloaded_tiles = ready_count(mt_tiles, r)
              => mt_regions'[r].downloaded_tiles = ready_count(mt_tiles', r)]_vars

\* what the report of verify_coverage for region rid is to hold when the
\* tiles of the region are all of zoom z
CoverageAtZoom(rid, z) ==
    LET region == mt_regions[rid]
        expected == tiles_in_bounds(region.min_lon, region.min_lat,
                                    region.max_lon, region.max_lat, z)
        ready == {<<mt_tiles[i].key[3], mt_tiles[i].key[4]>> :
                     i \in {j \in DOMAIN mt_tiles :
                                /\ mt_tiles[j].region_id = rid
                                /\ mt_tiles[j].status = READY}}
    IN  /\ mt_last.result.missing_coords = expected \ ready
        /\ mt_last.result.missing_count = Cardinality(expected \ ready)
        /\ mt_last.result.extra_count = Cardinality(ready \ expected)

\* C26: the report of verify_coverage for a region whose tiles were all
\* downloaded at one zoom lists as missing the tiles of the region's bounds
\* at that zoom that have no READY row, and counts as extra the READY rows of
\* the region outside them.
C26_VerifyCoverage ==
    mt_last.op = "verify_coverage" /\ mt_last.error = "" =>
        LET rid == mt_last.region_id
            zooms == {mt_tiles[i].key[2] :
                         i \in {j \in DOMAIN mt_tiles :
                                    mt_tiles[j].region_id = rid}}
        IN  \A z \in zooms : zooms = {z} => CoverageAtZoom(rid, z)

\* C27: the step of a delete_region call that deletes the region leaves no
\* row of the tiles table that had the region's id.
C27_DeleteCascades ==
    [][mt_last'.op = "delete_region" /\ mt_last'.error = "" =>
          \A i \in DOMAIN mt_tiles :
              mt_tiles[i].region_id = mt_last'.region_id =>
                  i \notin DOMAIN mt_tiles']_vars

\* the rows of the comparisons table of the unordered pair {a, b}
RowsOfPair(C, a, b) ==
    {i \in 1..Len(C) :
        {C[i].tile_a_id, C[i].tile_b_id} = {a, b}}
StoredComparisonReturned ==
    \A a \in CmTileIds, b \in CmTileIds :
        (/\ cm_last'.op = "compare_tiles"
         /\ cm_last'.a = a /\ cm_last'.b = b
         /\ RowsOfPair(tile_comparisons, a, b) # {})
        => /\ tile_comparisons' = tile_comparisons
           /\ cm_last'.computed = 0
           /\ cm_last'.code = 200
           /\ cm_last'.body[1] \in RowsOfPair(tile_comparisons, a, b)
           /\ cm_last'.body[2] = tile_comparisons[cm_last'.body[1]]
StoredComparisonsKept ==
    /\ Len(tile_comparisons') >= Len(tile_comparisons)
    /\ \A i \in 1..Len(tile_comparisons) :
          tile_comparisons'[i] = tile_comparisons[i]

\* C28: the comparisons table never holds two rows of one unordered pair of
\* tiles; a compare_tiles request for a pair that has a row, in either order,
\* returns that row, adds none and calls compare() not at all; no request
\* changes a row that is stored.
C28_OneComparisonPerPair ==
    /\ [](\A a \in CmTileIds, b \in CmTileIds :
             Cardinality(RowsOfPair(tile_comparisons, a, b)) <= 1)
    /\ [][StoredComparisonReturned]_vars
    /\ [][StoredComparisonsKept]_vars

\* the row of the pair (1, 2) was returned to a request for (2, 1)
C28_Witness ==
    /\ cm_last.op = "compare_tiles"
    /\ cm_last.a = 2 /\ cm_last.b = 1
    /\ cm_last.code = 200
    /\ cm_last.computed = 0
    /\ cm_last.body[2] = [tile_a_id |-> 1, tile_b_id |-> 2, result |-> "scores"]

====
